---- MODULE Spec2Model ----
(***************************************************************************)
(* State-machine model of the retrieval subsystem of                      *)
(* renewal-intelligence-nba: src/retrieval/vector_store.py (VectorStore)  *)
(* and of the query router built on it, src/llm/router.py (answer_query). *)
(*                                                                         *)
(* Representation                                                          *)
(*   - a float is a fixed-point integer: a vector component counts        *)
(*     1/UnitScale, a score (inner product) counts 1/UnitScale^2;          *)
(*   - a pandas DataFrame is [columns, labels, rows]: labels are the      *)
(*     index labels (0-based row positions), rows are functions from the   *)
(*     columns to values, a missing value being NaN;                       *)
(*   - a faiss IndexFlatIP is [d, vecs]; row positions are 0-based as in   *)
(*     the code, -1 is faiss's "no neighbour" label;                       *)
(*   - Python's None is the record None.                                   *)
(***************************************************************************)
EXTENDS Integers, Sequences, FiniteSets, TLC

VARIABLES
    model,       \* self.model: "None" or "loaded"
    index,       \* self.index: None or [d, vecs]
    metadata,    \* self.metadata: None or a DataFrame
    index_file,  \* base_dir / cfg.index_file: NoFile, Torn or a serialized index
    meta_file,   \* base_dir / cfg.meta_file: NoFile, Torn or a serialized table
    op,          \* the last operation called
    args,        \* its arguments
    ret,         \* its outcome: [err, val]
    calls,       \* the collaborator calls it made, in order
    cand,        \* the (idx, score) list its index.search returned
    model_name,  \* cfg.model_name of the store: the encoder identifier
    threads,     \* the threads inside search() on the shared store
    member_recos,    \* answer_query's local member_recos when it ended
    retrieved_facts  \* answer_query's local retrieved_facts when it ended

vars == <<model, index, metadata, index_file, meta_file, op, args, ret, calls, cand,
          model_name, threads, member_recos, retrieved_facts>>

\* The in-memory fields of the store, and the two persisted files.
memory == <<model, index, metadata>>
disk == <<index_file, meta_file>>
\* What a method of the store, called from one thread outside the router,
\* leaves alone: the store's configuration, the other threads, the router.
others == <<model_name, threads, member_recos, retrieved_facts>>

----------------------------------------------------------------------------
(* Bounds of the model. *)

\* Documents are the first n entries of a fixed corpus, n <= MaxDocs.
MaxDocs == 6
\* search is called with top_k in 1 .. MaxTopK.
MaxTopK == 2
\* Threads 1 .. MaxThreads call search concurrently on one store.
MaxThreads == 2

----------------------------------------------------------------------------
(* Program constants. *)

\* top_k * 5 in VectorStore.search: the over-fetch factor.
OVERFETCH_FACTOR == 5
\* Fixed-point scale of a vector component: a unit vector has norm UnitScale.
UnitScale == 5
\* VectorStoreConfig.normalize (default).
cfg_normalize == TRUE
\* VectorStoreConfig.model_name (default).
DefaultModelName == "sentence-transformers/all-MiniLM-L6-v2"

None == [none |-> TRUE]
NaN == "NaN"
NoFile == [exists |-> FALSE]
Torn == [exists |-> TRUE, readable |-> FALSE]

----------------------------------------------------------------------------
(* Inputs: documents, queries, filters. *)

\* What SentenceTransformer.encode returns for a text, before normalization.
RawEmbedding(text) ==
    CASE text = "t1" -> <<-5, 0>>
      [] text = "t2" -> <<5, 0>>
      [] text = "t3" -> <<4, 3>>
      [] text = "t4" -> <<8, 6>>
      [] text = "t5" -> <<3, 4>>
      [] text = "t6" -> <<0, 5>>
      [] text = "t7" -> <<4, -3>>
      [] text = "t8" -> <<0, -10>>
      [] text = "qa" -> <<10, 0>>
      [] text = "qb" -> <<0, 5>>
      [] OTHER -> <<3, -4>>

\* Documents {id, text, metadata} as a caller hands them to build_from_docs;
\* metadata is a set of <<key, value>> pairs (a dict), and may hold any key,
\* "doc_id" included.
Corpus ==
    << [id |-> "d1", text |-> "t1", metadata |-> {<<"persona_id", "1">>}],
       [id |-> "d2", text |-> "t2", metadata |-> {<<"persona_id", "2">>, <<"tenure_bucket", "new">>}],
       [id |-> "d3", text |-> "t3", metadata |-> {<<"persona_id", "2">>}],
       [id |-> "d4", text |-> "t4", metadata |-> {<<"persona_id", "2">>}],
       [id |-> "d5", text |-> "t5", metadata |-> {<<"persona_id", "2">>, <<"doc_id", "stale">>}],
       [id |-> "d6", text |-> "t6", metadata |-> {<<"persona_id", "2">>}],
       [id |-> "d7", text |-> "t7", metadata |-> {<<"persona_id", "1">>}],
       [id |-> "d8", text |-> "t8", metadata |-> {<<"persona_id", "2">>}],
       [id |-> "d9", text |-> "t9", metadata |-> {<<"persona_id", "1">>}] >>

\* The document lists build_from_docs is called with: the empty list and the
\* prefixes of the corpus.
DocLists == { SubSeq(Corpus, 1, n) : n \in 0..MaxDocs }

Queries == {"qa", "qb"}

\* The text lists encode is called with directly.
TextLists == { <<"qa">>, <<"t1", "t2">> }

\* Encoder identifiers a config can carry: the default one, and one that
\* names no model.
ModelNames == {DefaultModelName, "no-such-model"}

\* SentenceTransformer(name) finds a model under this name.
IsModel(name) == name = DefaultModelName

\* filters: None/{} is the empty set, otherwise a set of <<key, value>> pairs.
FilterChoices ==
    { {},
      {<<"persona_id", "1">>},
      {<<"persona_id", "2">>},
      {<<"region", "west">>},
      {<<"persona_id", "2">>, <<"tenure_bucket", "new">>} }

----------------------------------------------------------------------------
(* Embeddings: VectorStore.encode. *)

\* The element of a one-element set: Only({e}) is e, evaluated once.
Only(S) == CHOOSE x \in S : TRUE

\* The integer square root of n.
ISqrt(n) == CHOOSE r \in 0..n : r * r <= n /\ n < (r + 1) * (r + 1)

Dot(u, v) == IF Len(u) = 2 THEN u[1] * v[1] + u[2] * v[2] ELSE 0

\* faiss.normalize_L2 on one row: scale to unit norm; a zero row is left alone.
normalize_L2(v) ==
    LET norm == ISqrt(Dot(v, v))
    IN  IF norm = 0 THEN v
        ELSE [j \in 1..Len(v) |-> (v[j] * UnitScale) \div norm]

\* encode(texts): one row per text, normalized when cfg.normalize.
encode(texts) ==
    [i \in 1..Len(texts) |->
        IF cfg_normalize THEN normalize_L2(RawEmbedding(texts[i]))
        ELSE RawEmbedding(texts[i])]

----------------------------------------------------------------------------
(* Metadata table: pd.DataFrame(metas), boolean-mask filtering, .loc. *)

Keys(m) == {p[1] : p \in m}
Lookup(m, k) == (CHOOSE p \in m : p[1] = k)[2]

\* MergeDocId with the operands swapped: a doc_id among the metadata wins.
MergeDocIdLeftWins(d) ==
    d.metadata \cup (IF "doc_id" \in Keys(d.metadata) THEN {} ELSE {<<"doc_id", d.id>>})

\* d["metadata"] | {"doc_id": d["id"]}: the right operand wins.
MergeDocId(d) == {p \in d.metadata : p[1] # "doc_id"} \cup {<<"doc_id", d.id>>}

\* 0, 1, ..., n-1: the labels of a RangeIndex.
RangeIndex(n) == [i \in 1..n |-> i - 1]

\* pd.DataFrame(metas): columns are the union of the keys, a key a row lacks
\* is NaN, labels are 0..n-1.
DataFrame(metas) ==
    LET columns == UNION {Keys(metas[i]) : i \in 1..Len(metas)}
    IN  [columns |-> columns,
         labels  |-> RangeIndex(Len(metas)),
         rows    |-> [i \in 1..Len(metas) |->
                        [c \in columns |->
                            IF c \in Keys(metas[i]) THEN Lookup(metas[i], c) ELSE NaN]]]

\* Elementwise ==: NaN equals nothing.
Eq(a, b) == a # NaN /\ b # NaN /\ a = b

\* PassesFilters with the keys combined by "or": a row passes when it equals
\* the filter value on some key.
PassesAnyFilter(df, i, filters) ==
    \E p \in filters : p[1] \in df.columns /\ Eq(df.rows[i][p[1]], p[2])

\* Row i passes `for key, val in filters.items(): if key in meta.columns:
\* meta = meta[meta[key] == val]`: a key that is no column is skipped.
PassesFilters(df, i, filters) ==
    \A p \in filters : p[1] \in df.columns => Eq(df.rows[i][p[1]], p[2])

RECURSIVE KeptFrom(_, _, _)
\* The positions i..n of df that pass the filters, ascending.
KeptFrom(df, i, filters) ==
    IF i > Len(df.rows) THEN <<>>
    ELSE IF PassesFilters(df, i, filters)
         THEN <<i>> \o KeptFrom(df, i + 1, filters)
         ELSE KeptFrom(df, i + 1, filters)

\* meta after the filter loop: the passing rows, with their original labels.
FilterMeta(df, filters) ==
    Only({ [columns |-> df.columns,
            labels  |-> [j \in 1..Len(kept) |-> df.labels[kept[j]]],
            rows    |-> [j \in 1..Len(kept) |-> df.rows[kept[j]]]]
           : kept \in {KeptFrom(df, 1, filters)} })

\* DataFrame.empty
Empty(df) == Len(df.rows) = 0 \/ df.columns = {}

\* LabelSet with the labels taken as 1-based positions.
LabelSetOneBased(df) == {df.labels[i] + 1 : i \in 1..Len(df.labels)}

LabelSet(df) == {df.labels[i] : i \in 1..Len(df.labels)}

\* self.metadata.loc[idx].to_dict()
Loc(df, idx) == df.rows[CHOOSE i \in 1..Len(df.labels) : df.labels[i] = idx]

----------------------------------------------------------------------------
(* Similarity index: faiss.IndexFlatIP. *)

\* IndexFlatIP(dim) followed by index.add(embeddings)
IndexFlatIP(embeddings) == [d |-> Len(embeddings[1]), vecs |-> embeddings]

ntotal(ix) == Len(ix.vecs)

\* faiss's score of an empty result slot.
PadScore == 0 - (UnitScale * UnitScale * UnitScale)

\* The inner product of the query with every stored vector.
Scores(ix, q) == [i \in 1..ntotal(ix) |-> Dot(ix.vecs[i], q)]

\* rank[i]: how many vectors come before vector i in the result. Higher
\* scores come first. The order faiss gives equal scores is not specified:
\* with asc they come by ascending position, otherwise by descending position.
RankOf(score, asc) ==
    [i \in 1..Len(score) |->
        Cardinality({j \in 1..Len(score) :
            \/ score[j] > score[i]
            \/ score[j] = score[i] /\ IF asc THEN j < i ELSE j > i})]

\* The k result slots: (idx, score) by rank, then (-1, PadScore) past ntotal.
Slots(score, rank, k) ==
    [r \in 1..k |->
        IF r <= Len(score)
        THEN LET i == CHOOSE i \in 1..Len(score) : rank[i] = r - 1
             IN  [idx |-> i - 1, score |-> score[i]]
        ELSE [idx |-> -1, score |-> PadScore]]

\* index.search(q_emb, k)
IndexSearch(ix, q, k, asc) ==
    Only({ Only({ Slots(score, rank, k) : rank \in {RankOf(score, asc)} })
           : score \in {Scores(ix, q)} })

----------------------------------------------------------------------------
(* Persistence: faiss.write_index / read_index, to_parquet / read_parquet. *)

RECURSIVE Flatten(_)
Flatten(vecs) == IF vecs = <<>> THEN <<>> ELSE Head(vecs) \o Flatten(Tail(vecs))

\* faiss.write_index: the dimension, the vector count and the flat float array.
write_index(ix) ==
    [exists |-> TRUE, readable |-> TRUE,
     d |-> ix.d, n |-> ntotal(ix), codes |-> Flatten(ix.vecs)]

\* faiss.read_index: the flat array cut back into n rows of d floats.
read_index(f) ==
    [d |-> f.d,
     vecs |-> [i \in 1..f.n |-> [j \in 1..f.d |-> f.codes[(i - 1) * f.d + j]]]]

\* DataFrame.to_parquet(path, index=False): columns and rows, no labels.
to_parquet(df) ==
    [exists |-> TRUE, readable |-> TRUE, columns |-> df.columns, rows |-> df.rows]

\* pd.read_parquet: the rows in file order under a fresh RangeIndex.
read_parquet(f) ==
    [columns |-> f.columns, labels |-> RangeIndex(Len(f.rows)), rows |-> f.rows]

Exists(f) == f.exists
Readable(f) == f.exists /\ f.readable

----------------------------------------------------------------------------
(* Outcomes. *)

NoArgs == [noargs |-> TRUE]
Ok(val) == [err |-> "none", val |-> val]
Raise(e) == [err |-> e, val |-> <<>>]

\* EncodeCalls without `if self.model is None`: a model for every encode.
EncodeCallsEager(mdl) == <<"SentenceTransformer", "model.encode">>

\* The calls encode() makes: _get_model constructs the model when self.model
\* is None, then model.encode runs.
EncodeCalls(mdl) ==
    IF mdl = "None" THEN <<"SentenceTransformer", "model.encode">>
    ELSE <<"model.encode">>

\* _get_model on a store configured with the identifier name, for an outcome
\* o worked out as if the model could be constructed: when o constructs the
\* model and name is no model, SentenceTransformer(name) raises (OSError in
\* current releases) before self.model is assigned, and nothing after it runs.
WithModelName(name, mdl, o) ==
    IF o.calls # <<>> /\ o.calls[1] = "SentenceTransformer" /\ ~IsModel(name)
    THEN [o EXCEPT !.ret = Raise("OSError"),
                   !.calls = <<"SentenceTransformer">>,
                   !.model = mdl]
    ELSE o

\* encode(texts) called on the store: the embeddings, one row per text.
EncodeOutcome(mdl, texts) ==
    [ret |-> Ok(encode(texts)), calls |-> EncodeCalls(mdl), model |-> "loaded"]

Encode(texts) ==
    \E o \in {WithModelName(model_name, model, EncodeOutcome(model, texts))} :
        /\ op' = "encode"
        /\ args' = [texts |-> texts]
        /\ ret' = o.ret
        /\ calls' = o.calls
        /\ cand' = <<>>
        /\ model' = o.model
        /\ UNCHANGED <<index, metadata, index_file, meta_file>>
        /\ UNCHANGED others

----------------------------------------------------------------------------
(* VectorStore.search *)

\* row = self.metadata.loc[idx].to_dict(); row["score"] = float(score)
ResultRecord(md, c) ==
    LET row == Loc(md, c.idx)
    IN  [k \in md.columns \cup {"score"} |-> IF k = "score" THEN c.score ELSE row[k]]

RECURSIVE CollectNoBreak(_, _, _, _, _, _)
\* Collect without `if len(results) >= top_k: break`.
CollectNoBreak(md, subset_indices, cs, i, top_k, acc) ==
    IF i > Len(cs) THEN acc
    ELSE IF cs[i].idx < 0 THEN CollectNoBreak(md, subset_indices, cs, i + 1, top_k, acc)
    ELSE IF cs[i].idx \notin subset_indices
         THEN CollectNoBreak(md, subset_indices, cs, i + 1, top_k, acc)
    ELSE CollectNoBreak(md, subset_indices, cs, i + 1, top_k,
                        Append(acc, ResultRecord(md, cs[i])))

RECURSIVE Collect(_, _, _, _, _, _)
\* The loop over zip(scores[0], idxs[0]) from candidate i on, results so far
\* in acc: skip idx < 0, skip idx outside subset_indices, append, and break
\* once len(results) >= top_k.
Collect(md, subset_indices, cs, i, top_k, acc) ==
    IF i > Len(cs) THEN acc
    ELSE IF cs[i].idx < 0 THEN Collect(md, subset_indices, cs, i + 1, top_k, acc)
    ELSE IF cs[i].idx \notin subset_indices
         THEN Collect(md, subset_indices, cs, i + 1, top_k, acc)
    ELSE LET results == Append(acc, ResultRecord(md, cs[i]))
         IN  IF Len(results) >= top_k THEN results
             ELSE Collect(md, subset_indices, cs, i + 1, top_k, results)

\* NotInitialized with the query encoded before the check.
NotInitializedAfterEncode(mdl) ==
    [ret |-> Raise("RuntimeError"), calls |-> EncodeCalls(mdl), cand |-> <<>>,
     model |-> "loaded"]

\* `if self.index is None or self.metadata is None: raise RuntimeError`:
\* nothing was called, self.model is as it was.
NotInitialized(mdl) ==
    [ret |-> Raise("RuntimeError"), calls |-> <<>>, cand |-> <<>>, model |-> mdl]

\* `if meta.empty: return []`, before the query is encoded.
EmptySubset(mdl) ==
    [ret |-> Ok(<<>>), calls |-> <<>>, cand |-> <<>>, model |-> mdl]

\* meta after `if filters: for key, val in filters.items(): ...`
Subset(md, filters) == IF filters # {} THEN FilterMeta(md, filters) ELSE md

\* The rest of search once meta is known not to be empty: encode the query,
\* over-fetch top_k * 5 candidates from the full index, walk them.
RankedSearch(ix, md, mdl, meta, query, top_k, asc) ==
    LET subset_indices == LabelSet(meta)
        q_emb == encode(<<query>>)[1]
        Walk(cs) ==
            [ret   |-> Ok(Collect(md, subset_indices, cs, 1, top_k, <<>>)),
             calls |-> EncodeCalls(mdl) \o <<"index.search">>,
             cand  |-> cs,
             model |-> "loaded"]
    IN  Only({ Walk(cs) : cs \in {IndexSearch(ix, q_emb, top_k * OVERFETCH_FACTOR, asc)} })

\* The whole of search on a store (ix, md, mdl): what it returns or raises,
\* the calls it makes, the candidate list it got and self.model afterwards.
SearchOutcome(ix, md, mdl, query, top_k, filters, asc) ==
    IF ix = None \/ md = None THEN NotInitialized(mdl)
    ELSE Only({ IF Empty(meta) THEN EmptySubset(mdl)
                ELSE RankedSearch(ix, md, mdl, meta, query, top_k, asc)
                : meta \in {Subset(md, filters)} })

\* search() on a store whose config names the encoder model_name.
SearchWith(name, ix, md, mdl, query, top_k, filters, asc) ==
    Only({ IF o.ret.err = "OSError" THEN [o EXCEPT !.cand = <<>>] ELSE o
           : o \in {WithModelName(name, mdl,
                       SearchOutcome(ix, md, mdl, query, top_k, filters, asc))} })

\* Search with the filter applied to self.metadata itself instead of to the
\* local meta.
SearchFilteringInPlace(query, top_k, filters, asc) ==
    \E o \in {SearchWith(model_name, index, metadata, model, query, top_k, filters, asc)} :
        /\ op' = "search"
        /\ args' = [query |-> query, top_k |-> top_k, filters |-> filters]
        /\ ret' = o.ret
        /\ calls' = o.calls
        /\ cand' = o.cand
        /\ model' = o.model
        /\ metadata' = IF metadata = None THEN metadata ELSE Subset(metadata, filters)
        /\ UNCHANGED <<index, index_file, meta_file>>
        /\ UNCHANGED others

Search(query, top_k, filters, asc) ==
    \E o \in {SearchWith(model_name, index, metadata, model, query, top_k, filters, asc)} :
        /\ op' = "search"
        /\ args' = [query |-> query, top_k |-> top_k, filters |-> filters]
        /\ ret' = o.ret
        /\ calls' = o.calls
        /\ cand' = o.cand
        /\ model' = o.model
        /\ UNCHANGED <<index, metadata, index_file, meta_file>>
        /\ UNCHANGED others

----------------------------------------------------------------------------
(* VectorStore.__init__, build_from_docs, save, load *)

\* VectorStore(cfg, base_dir) with cfg.model_name = name: the fields are set,
\* base_dir is made (the files are left alone); the name is only stored.
NewStoreWith(name) ==
    /\ model_name' = name
    /\ model' = "None"
    /\ index' = None
    /\ metadata' = None
    /\ op' = "init"
    /\ args' = [model_name |-> name]
    /\ ret' = Ok(<<>>)
    /\ calls' = <<>>
    /\ cand' = <<>>
    /\ UNCHANGED disk
    /\ UNCHANGED <<threads, member_recos, retrieved_facts>>

\* The rows of corpus_df, the table build_nba_fact_corpus returns: every row
\* has the same columns, a missing value is NaN.
CorpusRows ==
    [i \in 1..Len(Corpus) |->
        {<<"doc_id", Corpus[i].id>>, <<"text", Corpus[i].text>>,
         <<"persona_id", Lookup(Corpus[i].metadata, "persona_id")>>,
         <<"tenure_bucket", IF "tenure_bucket" \in Keys(Corpus[i].metadata)
                            THEN Lookup(Corpus[i].metadata, "tenure_bucket")
                            ELSE NaN>>}]

\* chunking.to_documents(corpus_df, text_col="text", id_col="doc_id"): one
\* document per row; text and doc_id are popped from the row, the metadata
\* are what is left.
to_documents(rows) ==
    [i \in 1..Len(rows) |->
        [id |-> Lookup(rows[i], "doc_id"),
         text |-> Lookup(rows[i], "text"),
         metadata |-> {p \in rows[i] : p[1] \notin {"text", "doc_id"}}]]

\* A fresh VectorStore over the same base_dir with the same config.
NewStore ==
    /\ model' = "None"
    /\ index' = None
    /\ metadata' = None
    /\ op' = "init"
    /\ args' = NoArgs
    /\ ret' = Ok(<<>>)
    /\ calls' = <<>>
    /\ cand' = <<>>
    /\ UNCHANGED disk
    /\ UNCHANGED others

\* What build_from_docs(docs) assigns to self.index and self.metadata: the
\* embeddings of the texts added in document order, and one metadata row per
\* document in the same order.
Built(docs) ==
    LET texts == [i \in 1..Len(docs) |-> docs[i].text]
        metas == [i \in 1..Len(docs) |-> MergeDocId(docs[i])]
    IN  [index |-> IndexFlatIP(encode(texts)), metadata |-> DataFrame(metas)]

\* BuildOutcome with the vectors added to the index the store already holds
\* instead of to a new IndexFlatIP.
BuildOutcomeAddingToIndex(ix, md, mdl, docs) ==
    IF Len(docs) = 0
    THEN [ret |-> Raise("IndexError"), calls |-> EncodeCalls(mdl), model |-> "loaded",
          index |-> ix, metadata |-> md]
    ELSE Only({ [ret |-> Ok(<<>>), calls |-> EncodeCalls(mdl), model |-> "loaded",
                 index |-> IF ix = None THEN b.index
                           ELSE [d |-> ix.d, vecs |-> ix.vecs \o b.index.vecs],
                 metadata |-> b.metadata]
                : b \in {Built(docs)} })

\* build_from_docs(docs) on a store holding (ix, md, mdl). With no documents
\* encode returns an array without a second axis and embeddings.shape[1]
\* raises, after the model was built. Otherwise self.index and self.metadata
\* are assigned the new index and table.
BuildOutcome(ix, md, mdl, docs) ==
    IF Len(docs) = 0
    THEN [ret |-> Raise("IndexError"), calls |-> EncodeCalls(mdl), model |-> "loaded",
          index |-> ix, metadata |-> md]
    ELSE Only({ [ret |-> Ok(<<>>), calls |-> EncodeCalls(mdl), model |-> "loaded",
                 index |-> b.index, metadata |-> b.metadata]
                : b \in {Built(docs)} })

\* BuildWith with self.index and self.metadata reset to None before the
\* texts are encoded.
BuildWithResetFirst(name, ix, md, mdl, docs) ==
    Only({ IF o.ret.err # "none" THEN [o EXCEPT !.index = None, !.metadata = None] ELSE o
           : o \in {WithModelName(name, mdl, BuildOutcome(ix, md, mdl, docs))} })

\* build_from_docs on a store whose config names the encoder name: when the
\* constructor raises, self.index and self.metadata are not reached.
BuildWith(name, ix, md, mdl, docs) ==
    Only({ IF o.ret.err = "OSError" THEN [o EXCEPT !.index = ix, !.metadata = md] ELSE o
           : o \in {WithModelName(name, mdl, BuildOutcome(ix, md, mdl, docs))} })

BuildFromDocs(docs) ==
    \E o \in {BuildWith(model_name, index, metadata, model, docs)} :
        /\ op' = "build_from_docs"
        /\ args' = [docs |-> docs]
        /\ ret' = o.ret
        /\ calls' = o.calls
        /\ cand' = <<>>
        /\ model' = o.model
        /\ index' = o.index
        /\ metadata' = o.metadata
        /\ UNCHANGED disk
        /\ UNCHANGED others

\* SaveOutcome with the index file opened for writing before the check.
SaveOutcomeOpenFirst(ix, md, ifile, mfile) ==
    IF ix = None \/ md = None
    THEN [ret |-> Raise("RuntimeError"), index_file |-> Torn, meta_file |-> mfile]
    ELSE [ret |-> Ok(<<>>), index_file |-> write_index(ix), meta_file |-> to_parquet(md)]

\* save() writing a file only where there is none yet.
SaveOutcomeKeepingFiles(ix, md, ifile, mfile) ==
    IF ix = None \/ md = None
    THEN [ret |-> Raise("RuntimeError"), index_file |-> ifile, meta_file |-> mfile]
    ELSE [ret |-> Ok(<<>>),
          index_file |-> IF Exists(ifile) THEN ifile ELSE write_index(ix),
          meta_file |-> IF Exists(mfile) THEN mfile ELSE to_parquet(md)]

\* save() on a store holding (ix, md) with the files (ifile, mfile): `if
\* self.index is None or self.metadata is None: raise RuntimeError` comes
\* before either write.
SaveOutcome(ix, md, ifile, mfile) ==
    IF ix = None \/ md = None
    THEN [ret |-> Raise("RuntimeError"), index_file |-> ifile, meta_file |-> mfile]
    ELSE [ret |-> Ok(<<>>), index_file |-> write_index(ix), meta_file |-> to_parquet(md)]

\* save(): the index file is written first, the metadata file second.
Save ==
    \E o \in {SaveOutcome(index, metadata, index_file, meta_file)} :
        /\ op' = "save"
        /\ args' = NoArgs
        /\ calls' = <<>>
        /\ cand' = <<>>
        /\ ret' = o.ret
        /\ index_file' = o.index_file
        /\ meta_file' = o.meta_file
        /\ UNCHANGED memory
        /\ UNCHANGED others

\* The process dies inside save(): while the index file is being written
\* ("index"), between the two writes ("between") or while the metadata file
\* is being written ("meta"). The in-memory store is gone with the process.
SaveCrash(point) ==
    /\ index # None /\ metadata # None
    /\ op' = "crash"
    /\ args' = [point |-> point]
    /\ ret' = Raise("crash")
    /\ calls' = <<>>
    /\ cand' = <<>>
    /\ index_file' = IF point = "index" THEN Torn ELSE write_index(index)
    /\ meta_file' = IF point = "meta" THEN Torn ELSE meta_file
    /\ model' = "None"
    /\ index' = None
    /\ metadata' = None
    /\ UNCHANGED others

\* LoadOutcome with the index read before the metadata file is looked for.
LoadOutcomeIndexFirst(ix, md, ifile, mfile) ==
    IF ~Exists(ifile)
    THEN [ret |-> Raise("FileNotFoundError"), index |-> ix, metadata |-> md]
    ELSE IF ~Readable(ifile)
    THEN [ret |-> Raise("ReadError"), index |-> ix, metadata |-> md]
    ELSE IF ~Exists(mfile)
    THEN [ret |-> Raise("FileNotFoundError"), index |-> read_index(ifile), metadata |-> md]
    ELSE IF ~Readable(mfile)
    THEN [ret |-> Raise("ReadError"), index |-> read_index(ifile), metadata |-> md]
    ELSE [ret |-> Ok(<<>>), index |-> read_index(ifile), metadata |-> read_parquet(mfile)]

\* load() on a store holding (ix, md) with the files (ifile, mfile): both
\* files must exist; self.index is assigned before the metadata file is read.
LoadOutcome(ix, md, ifile, mfile) ==
    IF ~Exists(ifile) \/ ~Exists(mfile)
    THEN [ret |-> Raise("FileNotFoundError"), index |-> ix, metadata |-> md]
    ELSE IF ~Readable(ifile)
    THEN [ret |-> Raise("ReadError"), index |-> ix, metadata |-> md]
    ELSE IF ~Readable(mfile)
    THEN [ret |-> Raise("ReadError"), index |-> read_index(ifile), metadata |-> md]
    ELSE [ret |-> Ok(<<>>), index |-> read_index(ifile), metadata |-> read_parquet(mfile)]

Load ==
    \E o \in {LoadOutcome(index, metadata, index_file, meta_file)} :
        /\ op' = "load"
        /\ args' = NoArgs
        /\ calls' = <<>>
        /\ cand' = <<>>
        /\ ret' = o.ret
        /\ index' = o.index
        /\ metadata' = o.metadata
        /\ UNCHANGED <<model, index_file, meta_file>>
        /\ UNCHANGED others

----------------------------------------------------------------------------

Init ==
    /\ model = "None"
    /\ index = None
    /\ metadata = None
    /\ index_file = NoFile
    /\ meta_file = NoFile
    /\ op = "init"
    /\ args = NoArgs
    /\ ret = Ok(<<>>)
    /\ calls = <<>>
    /\ cand = <<>>
    /\ model_name = DefaultModelName
    /\ threads = <<>>
    /\ member_recos = <<>>
    /\ retrieved_facts = <<>>

Next ==
    \/ NewStore
    \/ \E docs \in DocLists : BuildFromDocs(docs)
    \/ Save
    \/ \E point \in {"index", "between", "meta"} : SaveCrash(point)
    \/ Load
    \/ \E texts \in TextLists : Encode(texts)
    \/ \E query \in Queries, top_k \in 1..MaxTopK, filters \in FilterChoices,
          asc \in BOOLEAN : Search(query, top_k, filters, asc)

Spec == Init /\ [][Next]_vars

----------------------------------------------------------------------------
(* Concurrent readers: threads calling search() on one loaded store. A      *)
(* thread can be preempted between any two statements; the steps below are *)
(* the statements of search, encode and _get_model that read or write the  *)
(* shared field self.model.                                                *)

Threads == 1..MaxThreads

\* The filters the threads search with.
ThreadFilters == { {}, {<<"persona_id", "1">>} }

\* A thread that has not called search yet.
NotCalled ==
    [pc |-> "idle", query |-> "", top_k |-> 0, filters |-> {},
     ret |-> Ok(<<>>), calls |-> <<>>]

\* The store load() yields from the files save() wrote after build_from_docs(docs).
LoadedFrom(docs) ==
    LoadOutcome(None, None, write_index(Built(docs).index), to_parquet(Built(docs).metadata))

\* search() up to `subset_indices = set(meta.index.tolist())`: the thread
\* raises on an unset store, returns [] on an empty subset, and otherwise
\* goes on to encode the query.
ThreadEnterSearch(t, query, top_k, filters) ==
    /\ threads[t].pc = "idle"
    /\ \E o \in {IF index = None \/ metadata = None
                  THEN [pc |-> "done", ret |-> NotInitialized(model).ret]
                  ELSE IF Empty(Subset(metadata, filters))
                  THEN [pc |-> "done", ret |-> EmptySubset(model).ret]
                  ELSE [pc |-> "get_model", ret |-> Ok(<<>>)]} :
          threads' = [threads EXCEPT ![t] =
              [pc |-> o.pc, query |-> query, top_k |-> top_k, filters |-> filters,
               ret |-> o.ret, calls |-> <<>>]]
    /\ UNCHANGED <<memory, disk, op, args, ret, calls, cand>>
    /\ UNCHANGED <<model_name, member_recos, retrieved_facts>>

\* _get_model: `if self.model is None`.
ThreadGetModelCheck(t) ==
    /\ threads[t].pc = "get_model"
    /\ threads' = [threads EXCEPT ![t].pc =
                      IF model = "None" THEN "construct" ELSE "encode"]
    /\ UNCHANGED <<memory, disk, op, args, ret, calls, cand>>
    /\ UNCHANGED <<model_name, member_recos, retrieved_facts>>

\* _get_model: `self.model = SentenceTransformer(self.cfg.model_name)`.
ThreadGetModelConstruct(t) ==
    /\ threads[t].pc = "construct"
    /\ model' = "loaded"
    /\ threads' = [threads EXCEPT ![t].pc = "encode",
                                  ![t].calls = Append(@, "SentenceTransformer")]
    /\ UNCHANGED <<index, metadata, disk, op, args, ret, calls, cand>>
    /\ UNCHANGED <<model_name, member_recos, retrieved_facts>>

\* The rest of search(): model.encode, index.search, the result loop.
ThreadFinishSearch(t, asc) ==
    /\ threads[t].pc = "encode"
    /\ \E o \in {RankedSearch(index, metadata, model, Subset(metadata, threads[t].filters),
                               threads[t].query, threads[t].top_k, asc)} :
          threads' = [threads EXCEPT ![t].pc = "done",
                                     ![t].ret = o.ret,
                                     ![t].calls = @ \o o.calls]
    /\ UNCHANGED <<memory, disk, op, args, ret, calls, cand>>
    /\ UNCHANGED <<model_name, member_recos, retrieved_facts>>

\* A store loaded from saved files, its encoder not yet constructed, and no
\* thread inside search.
ThreadInit ==
    /\ model = "None"
    /\ \E o \in {LoadedFrom(SubSeq(Corpus, 1, MaxDocs))} :
          /\ index = o.index
          /\ metadata = o.metadata
          /\ ret = o.ret
    /\ index_file = write_index(index)
    /\ meta_file = to_parquet(metadata)
    /\ op = "load"
    /\ args = NoArgs
    /\ calls = <<>>
    /\ cand = <<>>
    /\ model_name = DefaultModelName
    /\ threads = [t \in Threads |-> NotCalled]
    /\ member_recos = <<>>
    /\ retrieved_facts = <<>>

ThreadNext ==
    \E t \in Threads :
        \/ \E query \in Queries, filters \in ThreadFilters :
              ThreadEnterSearch(t, query, MaxTopK, filters)
        \/ ThreadGetModelCheck(t)
        \/ ThreadGetModelConstruct(t)
        \/ \E asc \in BOOLEAN : ThreadFinishSearch(t, asc)

ThreadSpec == ThreadInit /\ [][ThreadNext]_vars

----------------------------------------------------------------------------
(* Stores constructed with any encoder identifier, valid or not, over one  *)
(* base_dir.                                                               *)

\* The document lists the stores are built from here: none, one document,
\* two documents.
ConfigDocLists == { <<>>, SubSeq(Corpus, 1, 1), SubSeq(Corpus, 1, 2) }

ConfigInit ==
    /\ model_name = DefaultModelName
    /\ model = "None"
    /\ index = None
    /\ metadata = None
    /\ index_file = NoFile
    /\ meta_file = NoFile
    /\ op = "init"
    /\ args = [model_name |-> model_name]
    /\ ret = Ok(<<>>)
    /\ calls = <<>>
    /\ cand = <<>>
    /\ threads = <<>>
    /\ member_recos = <<>>
    /\ retrieved_facts = <<>>

ConfigNext ==
    \/ \E name \in ModelNames : NewStoreWith(name)
    \/ \E docs \in ConfigDocLists : BuildFromDocs(docs)
    \/ Save
    \/ Load
    \/ \E texts \in TextLists : Encode(texts)
    \/ \E query \in Queries, filters \in FilterChoices, asc \in BOOLEAN :
          Search(query, MaxTopK, filters, asc)

ConfigSpec == ConfigInit /\ [][ConfigNext]_vars

----------------------------------------------------------------------------
(* Query router: src/llm/router.py. answer_query runs in the serving       *)
(* process; the index and metadata files are written by the offline build  *)
(* (src/retrieval/run_retrieval.py), a process of its own.                 *)
(*                                                                         *)
(* env is what answer_query finds around it: the RI_* environment flags,   *)
(* the state of the config files, llm.yaml's intents and embedding model,  *)
(* the member recommendation file and what the Ollama client does.         *)

\* A str is the sequence of its code points. CodeOf is the code point of
\* each character the strings of this module are written with: Ascii is the
\* printable ASCII characters in code order from U+0020 to U+005F, Letters
\* the ones from U+0061 to U+007E.
CodeOf ==
    LET Ascii == " !\"#$%&'()*+,-./0123456789:;<=>?@ABCDEFGHIJKLMNOPQRSTUVWXYZ[\\]^_"
        Letters == "abcdefghijklmnopqrstuvwxyz{|}~"
    IN  [c \in {SubSeq(Ascii, i, i) : i \in 1..Len(Ascii)}
                  \cup {SubSeq(Letters, i, i) : i \in 1..Len(Letters)}
                  \cup {"\t", "\n", "\f", "\r"} |->
            CASE c = "\t" -> 9 [] c = "\n" -> 10 [] c = "\f" -> 12 [] c = "\r" -> 13
              [] \E i \in 1..Len(Ascii) : SubSeq(Ascii, i, i) = c
                 -> 31 + CHOOSE i \in 1..Len(Ascii) : SubSeq(Ascii, i, i) = c
              [] OTHER -> 96 + CHOOSE i \in 1..Len(Letters) : SubSeq(Letters, i, i) = c]

\* The str that the string s spells.
Text(s) == [i \in 1..Len(s) |-> CodeOf[SubSeq(s, i, i)]]

\* The simple lower-case mappings above U+007F, from the Unicode 14.0 tables
\* of CPython 3.11: <<first, last, step, delta>> maps the code points first,
\* first + step, ..., last to themselves plus delta.
LowerRanges ==
    << <<192, 214, 1, 32>>, <<216, 222, 1, 32>>, <<256, 302, 2, 1>>, <<306, 310, 2, 1>>,
       <<313, 327, 2, 1>>, <<330, 374, 2, 1>>, <<376, 376, 1, -121>>, <<377, 381, 2, 1>>,
       <<385, 385, 1, 210>>, <<386, 388, 2, 1>>, <<390, 390, 1, 206>>, <<391, 391, 1, 1>>,
       <<393, 394, 1, 205>>, <<395, 395, 1, 1>>, <<398, 398, 1, 79>>, <<399, 399, 1, 202>>,
       <<400, 400, 1, 203>>, <<401, 401, 1, 1>>, <<403, 403, 1, 205>>, <<404, 404, 1, 207>>,
       <<406, 406, 1, 211>>, <<407, 407, 1, 209>>, <<408, 408, 1, 1>>, <<412, 412, 1, 211>>,
       <<413, 413, 1, 213>>, <<415, 415, 1, 214>>, <<416, 420, 2, 1>>, <<422, 422, 1, 218>>,
       <<423, 423, 1, 1>>, <<425, 425, 1, 218>>, <<428, 428, 1, 1>>, <<430, 430, 1, 218>>,
       <<431, 431, 1, 1>>, <<433, 434, 1, 217>>, <<435, 437, 2, 1>>, <<439, 439, 1, 219>>,
       <<440, 440, 1, 1>>, <<444, 444, 1, 1>>, <<452, 452, 1, 2>>, <<453, 453, 1, 1>>,
       <<455, 455, 1, 2>>, <<456, 456, 1, 1>>, <<458, 458, 1, 2>>, <<459, 475, 2, 1>>,
       <<478, 494, 2, 1>>, <<497, 497, 1, 2>>, <<498, 500, 2, 1>>, <<502, 502, 1, -97>>,
       <<503, 503, 1, -56>>, <<504, 542, 2, 1>>, <<544, 544, 1, -130>>, <<546, 562, 2, 1>>,
       <<570, 570, 1, 10795>>, <<571, 571, 1, 1>>, <<573, 573, 1, -163>>, <<574, 574, 1, 10792>>,
       <<577, 577, 1, 1>>, <<579, 579, 1, -195>>, <<580, 580, 1, 69>>, <<581, 581, 1, 71>>,
       <<582, 590, 2, 1>>, <<880, 882, 2, 1>>, <<886, 886, 1, 1>>, <<895, 895, 1, 116>>,
       <<902, 902, 1, 38>>, <<904, 906, 1, 37>>, <<908, 908, 1, 64>>, <<910, 911, 1, 63>>,
       <<913, 929, 1, 32>>, <<931, 939, 1, 32>>, <<975, 975, 1, 8>>, <<984, 1006, 2, 1>>,
       <<1012, 1012, 1, -60>>, <<1015, 1015, 1, 1>>, <<1017, 1017, 1, -7>>, <<1018, 1018, 1, 1>>,
       <<1021, 1023, 1, -130>>, <<1024, 1039, 1, 80>>, <<1040, 1071, 1, 32>>, <<1120, 1152, 2, 1>>,
       <<1162, 1214, 2, 1>>, <<1216, 1216, 1, 15>>, <<1217, 1229, 2, 1>>, <<1232, 1326, 2, 1>>,
       <<1329, 1366, 1, 48>>, <<4256, 4293, 1, 7264>>, <<4295, 4295, 1, 7264>>, <<4301, 4301, 1, 7264>>,
       <<5024, 5103, 1, 38864>>, <<5104, 5109, 1, 8>>, <<7312, 7354, 1, -3008>>, <<7357, 7359, 1, -3008>>,
       <<7680, 7828, 2, 1>>, <<7838, 7838, 1, -7615>>, <<7840, 7934, 2, 1>>, <<7944, 7951, 1, -8>>,
       <<7960, 7965, 1, -8>>, <<7976, 7983, 1, -8>>, <<7992, 7999, 1, -8>>, <<8008, 8013, 1, -8>>,
       <<8025, 8031, 2, -8>>, <<8040, 8047, 1, -8>>, <<8072, 8079, 1, -8>>, <<8088, 8095, 1, -8>>,
       <<8104, 8111, 1, -8>>, <<8120, 8121, 1, -8>>, <<8122, 8123, 1, -74>>, <<8124, 8124, 1, -9>>,
       <<8136, 8139, 1, -86>>, <<8140, 8140, 1, -9>>, <<8152, 8153, 1, -8>>, <<8154, 8155, 1, -100>>,
       <<8168, 8169, 1, -8>>, <<8170, 8171, 1, -112>>, <<8172, 8172, 1, -7>>, <<8184, 8185, 1, -128>>,
       <<8186, 8187, 1, -126>>, <<8188, 8188, 1, -9>>, <<8486, 8486, 1, -7517>>, <<8490, 8490, 1, -8383>>,
       <<8491, 8491, 1, -8262>>, <<8498, 8498, 1, 28>>, <<8544, 8559, 1, 16>>, <<8579, 8579, 1, 1>>,
       <<9398, 9423, 1, 26>>, <<11264, 11311, 1, 48>>, <<11360, 11360, 1, 1>>, <<11362, 11362, 1, -10743>>,
       <<11363, 11363, 1, -3814>>, <<11364, 11364, 1, -10727>>, <<11367, 11371, 2, 1>>, <<11373, 11373, 1, -10780>>,
       <<11374, 11374, 1, -10749>>, <<11375, 11375, 1, -10783>>, <<11376, 11376, 1, -10782>>, <<11378, 11378, 1, 1>>,
       <<11381, 11381, 1, 1>>, <<11390, 11391, 1, -10815>>, <<11392, 11490, 2, 1>>, <<11499, 11501, 2, 1>>,
       <<11506, 11506, 1, 1>>, <<42560, 42604, 2, 1>>, <<42624, 42650, 2, 1>>, <<42786, 42798, 2, 1>>,
       <<42802, 42862, 2, 1>>, <<42873, 42875, 2, 1>>, <<42877, 42877, 1, -35332>>, <<42878, 42886, 2, 1>>,
       <<42891, 42891, 1, 1>>, <<42893, 42893, 1, -42280>>, <<42896, 42898, 2, 1>>, <<42902, 42920, 2, 1>>,
       <<42922, 42922, 1, -42308>>, <<42923, 42923, 1, -42319>>, <<42924, 42924, 1, -42315>>, <<42925, 42925, 1, -42305>>,
       <<42926, 42926, 1, -42308>>, <<42928, 42928, 1, -42258>>, <<42929, 42929, 1, -42282>>, <<42930, 42930, 1, -42261>>,
       <<42931, 42931, 1, 928>>, <<42932, 42946, 2, 1>>, <<42948, 42948, 1, -48>>, <<42949, 42949, 1, -42307>>,
       <<42950, 42950, 1, -35384>>, <<42951, 42953, 2, 1>>, <<42960, 42960, 1, 1>>, <<42966, 42968, 2, 1>>,
       <<42997, 42997, 1, 1>>, <<65313, 65338, 1, 32>>, <<66560, 66599, 1, 40>>, <<66736, 66771, 1, 40>>,
       <<66928, 66938, 1, 39>>, <<66940, 66954, 1, 39>>, <<66956, 66962, 1, 39>>, <<66964, 66965, 1, 39>>,
       <<68736, 68786, 1, 64>>, <<71840, 71871, 1, 32>>, <<93760, 93791, 1, 32>>, <<125184, 125217, 1, 34>> >>

\* The ranges <<first, last>> of the cased code points that are not
\* case-ignorable, the ones the final-sigma rule stops at and finds cased.
CasedRanges ==
    << <<65, 90>>, <<97, 122>>, <<170, 170>>, <<181, 181>>, <<186, 186>>, <<192, 214>>,
       <<216, 246>>, <<248, 442>>, <<444, 447>>, <<452, 659>>, <<661, 687>>, <<880, 883>>,
       <<886, 887>>, <<891, 893>>, <<895, 895>>, <<902, 902>>, <<904, 906>>, <<908, 908>>,
       <<910, 929>>, <<931, 1013>>, <<1015, 1153>>, <<1162, 1327>>, <<1329, 1366>>, <<1376, 1416>>,
       <<4256, 4293>>, <<4295, 4295>>, <<4301, 4301>>, <<4304, 4346>>, <<4349, 4351>>, <<5024, 5109>>,
       <<5112, 5117>>, <<7296, 7304>>, <<7312, 7354>>, <<7357, 7359>>, <<7424, 7467>>, <<7531, 7543>>,
       <<7545, 7578>>, <<7680, 7957>>, <<7960, 7965>>, <<7968, 8005>>, <<8008, 8013>>, <<8016, 8023>>,
       <<8025, 8025>>, <<8027, 8027>>, <<8029, 8029>>, <<8031, 8061>>, <<8064, 8116>>, <<8118, 8124>>,
       <<8126, 8126>>, <<8130, 8132>>, <<8134, 8140>>, <<8144, 8147>>, <<8150, 8155>>, <<8160, 8172>>,
       <<8178, 8180>>, <<8182, 8188>>, <<8450, 8450>>, <<8455, 8455>>, <<8458, 8467>>, <<8469, 8469>>,
       <<8473, 8477>>, <<8484, 8484>>, <<8486, 8486>>, <<8488, 8488>>, <<8490, 8493>>, <<8495, 8500>>,
       <<8505, 8505>>, <<8508, 8511>>, <<8517, 8521>>, <<8526, 8526>>, <<8544, 8575>>, <<8579, 8580>>,
       <<9398, 9449>>, <<11264, 11387>>, <<11390, 11492>>, <<11499, 11502>>, <<11506, 11507>>, <<11520, 11557>>,
       <<11559, 11559>>, <<11565, 11565>>, <<42560, 42605>>, <<42624, 42651>>, <<42786, 42863>>, <<42865, 42887>>,
       <<42891, 42894>>, <<42896, 42954>>, <<42960, 42961>>, <<42963, 42963>>, <<42965, 42969>>, <<42997, 42998>>,
       <<43002, 43002>>, <<43824, 43866>>, <<43872, 43880>>, <<43888, 43967>>, <<64256, 64262>>, <<64275, 64279>>,
       <<65313, 65338>>, <<65345, 65370>>, <<66560, 66639>>, <<66736, 66771>>, <<66776, 66811>>, <<66928, 66938>>,
       <<66940, 66954>>, <<66956, 66962>>, <<66964, 66965>>, <<66967, 66977>>, <<66979, 66993>>, <<66995, 67001>>,
       <<67003, 67004>>, <<68736, 68786>>, <<68800, 68850>>, <<71840, 71903>>, <<93760, 93823>>, <<119808, 119892>>,
       <<119894, 119964>>, <<119966, 119967>>, <<119970, 119970>>, <<119973, 119974>>, <<119977, 119980>>, <<119982, 119993>>,
       <<119995, 119995>>, <<119997, 120003>>, <<120005, 120069>>, <<120071, 120074>>, <<120077, 120084>>, <<120086, 120092>>,
       <<120094, 120121>>, <<120123, 120126>>, <<120128, 120132>>, <<120134, 120134>>, <<120138, 120144>>, <<120146, 120485>>,
       <<120488, 120512>>, <<120514, 120538>>, <<120540, 120570>>, <<120572, 120596>>, <<120598, 120628>>, <<120630, 120654>>,
       <<120656, 120686>>, <<120688, 120712>>, <<120714, 120744>>, <<120746, 120770>>, <<120772, 120779>>, <<122624, 122633>>,
       <<122635, 122654>>, <<125184, 125251>>, <<127280, 127305>>, <<127312, 127337>>, <<127344, 127369>> >>

\* The ranges <<first, last>> of the case-ignorable code points, the ones
\* the final-sigma rule skips.
CaseIgnorableRanges ==
    << <<39, 39>>, <<46, 46>>, <<58, 58>>, <<94, 94>>, <<96, 96>>, <<168, 168>>,
       <<173, 173>>, <<175, 175>>, <<180, 180>>, <<183, 184>>, <<688, 879>>, <<884, 885>>,
       <<890, 890>>, <<900, 901>>, <<903, 903>>, <<1155, 1161>>, <<1369, 1369>>, <<1375, 1375>>,
       <<1425, 1469>>, <<1471, 1471>>, <<1473, 1474>>, <<1476, 1477>>, <<1479, 1479>>, <<1524, 1524>>,
       <<1536, 1541>>, <<1552, 1562>>, <<1564, 1564>>, <<1600, 1600>>, <<1611, 1631>>, <<1648, 1648>>,
       <<1750, 1757>>, <<1759, 1768>>, <<1770, 1773>>, <<1807, 1807>>, <<1809, 1809>>, <<1840, 1866>>,
       <<1958, 1968>>, <<2027, 2037>>, <<2042, 2042>>, <<2045, 2045>>, <<2070, 2093>>, <<2137, 2139>>,
       <<2184, 2184>>, <<2192, 2193>>, <<2200, 2207>>, <<2249, 2306>>, <<2362, 2362>>, <<2364, 2364>>,
       <<2369, 2376>>, <<2381, 2381>>, <<2385, 2391>>, <<2402, 2403>>, <<2417, 2417>>, <<2433, 2433>>,
       <<2492, 2492>>, <<2497, 2500>>, <<2509, 2509>>, <<2530, 2531>>, <<2558, 2558>>, <<2561, 2562>>,
       <<2620, 2620>>, <<2625, 2626>>, <<2631, 2632>>, <<2635, 2637>>, <<2641, 2641>>, <<2672, 2673>>,
       <<2677, 2677>>, <<2689, 2690>>, <<2748, 2748>>, <<2753, 2757>>, <<2759, 2760>>, <<2765, 2765>>,
       <<2786, 2787>>, <<2810, 2815>>, <<2817, 2817>>, <<2876, 2876>>, <<2879, 2879>>, <<2881, 2884>>,
       <<2893, 2893>>, <<2901, 2902>>, <<2914, 2915>>, <<2946, 2946>>, <<3008, 3008>>, <<3021, 3021>>,
       <<3072, 3072>>, <<3076, 3076>>, <<3132, 3132>>, <<3134, 3136>>, <<3142, 3144>>, <<3146, 3149>>,
       <<3157, 3158>>, <<3170, 3171>>, <<3201, 3201>>, <<3260, 3260>>, <<3263, 3263>>, <<3270, 3270>>,
       <<3276, 3277>>, <<3298, 3299>>, <<3328, 3329>>, <<3387, 3388>>, <<3393, 3396>>, <<3405, 3405>>,
       <<3426, 3427>>, <<3457, 3457>>, <<3530, 3530>>, <<3538, 3540>>, <<3542, 3542>>, <<3633, 3633>>,
       <<3636, 3642>>, <<3654, 3662>>, <<3761, 3761>>, <<3764, 3772>>, <<3782, 3782>>, <<3784, 3789>>,
       <<3864, 3865>>, <<3893, 3893>>, <<3895, 3895>>, <<3897, 3897>>, <<3953, 3966>>, <<3968, 3972>>,
       <<3974, 3975>>, <<3981, 3991>>, <<3993, 4028>>, <<4038, 4038>>, <<4141, 4144>>, <<4146, 4151>>,
       <<4153, 4154>>, <<4157, 4158>>, <<4184, 4185>>, <<4190, 4192>>, <<4209, 4212>>, <<4226, 4226>>,
       <<4229, 4230>>, <<4237, 4237>>, <<4253, 4253>>, <<4348, 4348>>, <<4957, 4959>>, <<5906, 5908>>,
       <<5938, 5939>>, <<5970, 5971>>, <<6002, 6003>>, <<6068, 6069>>, <<6071, 6077>>, <<6086, 6086>>,
       <<6089, 6099>>, <<6103, 6103>>, <<6109, 6109>>, <<6155, 6159>>, <<6211, 6211>>, <<6277, 6278>>,
       <<6313, 6313>>, <<6432, 6434>>, <<6439, 6440>>, <<6450, 6450>>, <<6457, 6459>>, <<6679, 6680>>,
       <<6683, 6683>>, <<6742, 6742>>, <<6744, 6750>>, <<6752, 6752>>, <<6754, 6754>>, <<6757, 6764>>,
       <<6771, 6780>>, <<6783, 6783>>, <<6823, 6823>>, <<6832, 6862>>, <<6912, 6915>>, <<6964, 6964>>,
       <<6966, 6970>>, <<6972, 6972>>, <<6978, 6978>>, <<7019, 7027>>, <<7040, 7041>>, <<7074, 7077>>,
       <<7080, 7081>>, <<7083, 7085>>, <<7142, 7142>>, <<7144, 7145>>, <<7149, 7149>>, <<7151, 7153>>,
       <<7212, 7219>>, <<7222, 7223>>, <<7288, 7293>>, <<7376, 7378>>, <<7380, 7392>>, <<7394, 7400>>,
       <<7405, 7405>>, <<7412, 7412>>, <<7416, 7417>>, <<7468, 7530>>, <<7544, 7544>>, <<7579, 7679>>,
       <<8125, 8125>>, <<8127, 8129>>, <<8141, 8143>>, <<8157, 8159>>, <<8173, 8175>>, <<8189, 8190>>,
       <<8203, 8207>>, <<8216, 8217>>, <<8228, 8228>>, <<8231, 8231>>, <<8234, 8238>>, <<8288, 8292>>,
       <<8294, 8303>>, <<8305, 8305>>, <<8319, 8319>>, <<8336, 8348>>, <<8400, 8432>>, <<11388, 11389>>,
       <<11503, 11505>>, <<11631, 11631>>, <<11647, 11647>>, <<11744, 11775>>, <<11823, 11823>>, <<12293, 12293>>,
       <<12330, 12333>>, <<12337, 12341>>, <<12347, 12347>>, <<12441, 12446>>, <<12540, 12542>>, <<40981, 40981>>,
       <<42232, 42237>>, <<42508, 42508>>, <<42607, 42610>>, <<42612, 42621>>, <<42623, 42623>>, <<42652, 42655>>,
       <<42736, 42737>>, <<42752, 42785>>, <<42864, 42864>>, <<42888, 42890>>, <<42994, 42996>>, <<43000, 43001>>,
       <<43010, 43010>>, <<43014, 43014>>, <<43019, 43019>>, <<43045, 43046>>, <<43052, 43052>>, <<43204, 43205>>,
       <<43232, 43249>>, <<43263, 43263>>, <<43302, 43309>>, <<43335, 43345>>, <<43392, 43394>>, <<43443, 43443>>,
       <<43446, 43449>>, <<43452, 43453>>, <<43471, 43471>>, <<43493, 43494>>, <<43561, 43566>>, <<43569, 43570>>,
       <<43573, 43574>>, <<43587, 43587>>, <<43596, 43596>>, <<43632, 43632>>, <<43644, 43644>>, <<43696, 43696>>,
       <<43698, 43700>>, <<43703, 43704>>, <<43710, 43711>>, <<43713, 43713>>, <<43741, 43741>>, <<43756, 43757>>,
       <<43763, 43764>>, <<43766, 43766>>, <<43867, 43871>>, <<43881, 43883>>, <<44005, 44005>>, <<44008, 44008>>,
       <<44013, 44013>>, <<64286, 64286>>, <<64434, 64450>>, <<65024, 65039>>, <<65043, 65043>>, <<65056, 65071>>,
       <<65106, 65106>>, <<65109, 65109>>, <<65279, 65279>>, <<65287, 65287>>, <<65294, 65294>>, <<65306, 65306>>,
       <<65342, 65342>>, <<65344, 65344>>, <<65392, 65392>>, <<65438, 65439>>, <<65507, 65507>>, <<65529, 65531>>,
       <<66045, 66045>>, <<66272, 66272>>, <<66422, 66426>>, <<67456, 67461>>, <<67463, 67504>>, <<67506, 67514>>,
       <<68097, 68099>>, <<68101, 68102>>, <<68108, 68111>>, <<68152, 68154>>, <<68159, 68159>>, <<68325, 68326>>,
       <<68900, 68903>>, <<69291, 69292>>, <<69446, 69456>>, <<69506, 69509>>, <<69633, 69633>>, <<69688, 69702>>,
       <<69744, 69744>>, <<69747, 69748>>, <<69759, 69761>>, <<69811, 69814>>, <<69817, 69818>>, <<69821, 69821>>,
       <<69826, 69826>>, <<69837, 69837>>, <<69888, 69890>>, <<69927, 69931>>, <<69933, 69940>>, <<70003, 70003>>,
       <<70016, 70017>>, <<70070, 70078>>, <<70089, 70092>>, <<70095, 70095>>, <<70191, 70193>>, <<70196, 70196>>,
       <<70198, 70199>>, <<70206, 70206>>, <<70367, 70367>>, <<70371, 70378>>, <<70400, 70401>>, <<70459, 70460>>,
       <<70464, 70464>>, <<70502, 70508>>, <<70512, 70516>>, <<70712, 70719>>, <<70722, 70724>>, <<70726, 70726>>,
       <<70750, 70750>>, <<70835, 70840>>, <<70842, 70842>>, <<70847, 70848>>, <<70850, 70851>>, <<71090, 71093>>,
       <<71100, 71101>>, <<71103, 71104>>, <<71132, 71133>>, <<71219, 71226>>, <<71229, 71229>>, <<71231, 71232>>,
       <<71339, 71339>>, <<71341, 71341>>, <<71344, 71349>>, <<71351, 71351>>, <<71453, 71455>>, <<71458, 71461>>,
       <<71463, 71467>>, <<71727, 71735>>, <<71737, 71738>>, <<71995, 71996>>, <<71998, 71998>>, <<72003, 72003>>,
       <<72148, 72151>>, <<72154, 72155>>, <<72160, 72160>>, <<72193, 72202>>, <<72243, 72248>>, <<72251, 72254>>,
       <<72263, 72263>>, <<72273, 72278>>, <<72281, 72283>>, <<72330, 72342>>, <<72344, 72345>>, <<72752, 72758>>,
       <<72760, 72765>>, <<72767, 72767>>, <<72850, 72871>>, <<72874, 72880>>, <<72882, 72883>>, <<72885, 72886>>,
       <<73009, 73014>>, <<73018, 73018>>, <<73020, 73021>>, <<73023, 73029>>, <<73031, 73031>>, <<73104, 73105>>,
       <<73109, 73109>>, <<73111, 73111>>, <<73459, 73460>>, <<78896, 78904>>, <<92912, 92916>>, <<92976, 92982>>,
       <<92992, 92995>>, <<94031, 94031>>, <<94095, 94111>>, <<94176, 94177>>, <<94179, 94180>>, <<110576, 110579>>,
       <<110581, 110587>>, <<110589, 110590>>, <<113821, 113822>>, <<113824, 113827>>, <<118528, 118573>>, <<118576, 118598>>,
       <<119143, 119145>>, <<119155, 119170>>, <<119173, 119179>>, <<119210, 119213>>, <<119362, 119364>>, <<121344, 121398>>,
       <<121403, 121452>>, <<121461, 121461>>, <<121476, 121476>>, <<121499, 121503>>, <<121505, 121519>>, <<122880, 122886>>,
       <<122888, 122904>>, <<122907, 122913>>, <<122915, 122916>>, <<122918, 122922>>, <<123184, 123197>>, <<123566, 123566>>,
       <<123628, 123631>>, <<125136, 125142>>, <<125252, 125259>>, <<127995, 127999>>, <<917505, 917505>>, <<917536, 917631>>,
       <<917760, 917999>> >>

InRanges(c, ranges) == \E r \in 1..Len(ranges) : ranges[r][1] <= c /\ c <= ranges[r][2]

\* The lower case of one code point by the simple mappings: A-Z below
\* U+0080, LowerRanges above; every other code point is its own lower case.
LowerChar(c) ==
    IF c < 128 THEN (IF 65 <= c /\ c <= 90 THEN c + 32 ELSE c)
    ELSE LET hits == {r \in 1..Len(LowerRanges) :
                         /\ LowerRanges[r][1] <= c
                         /\ c <= LowerRanges[r][2]
                         /\ (c - LowerRanges[r][1]) % LowerRanges[r][3] = 0}
         IN  IF hits = {} THEN c
             ELSE c + LowerRanges[CHOOSE r \in hits : TRUE][4]

\* The capital sigma at position i of str is final: the nearest code point
\* before it that is not case-ignorable is cased, and the nearest one after
\* it that is not case-ignorable, if there is one, is not cased.
FinalSigma(str, i) ==
    LET before == {j \in 1..(i - 1) : ~InRanges(str[j], CaseIgnorableRanges)}
        after == {j \in (i + 1)..Len(str) : ~InRanges(str[j], CaseIgnorableRanges)}
    IN  /\ before # {}
        /\ InRanges(str[CHOOSE j \in before : \A k \in before : k <= j], CasedRanges)
        /\ \/ after = {}
           \/ ~InRanges(str[CHOOSE j \in after : \A k \in after : j <= k], CasedRanges)

\* str.lower() from position i of str on. For the code point at a position
\* it puts: for U+03A3 the final or the medial small sigma, for U+0130 i
\* followed by the combining dot above, for every other code point its simple
\* lower case.
RECURSIVE LowerFrom(_, _)
LowerFrom(str, i) ==
    IF i > Len(str) THEN <<>>
    ELSE (IF str[i] = 931 THEN (IF FinalSigma(str, i) THEN <<962>> ELSE <<963>>)
          ELSE IF str[i] = 304 THEN <<105, 775>>
          ELSE <<LowerChar(str[i])>>)
         \o LowerFrom(str, i + 1)

\* str.lower()
lower(str) == LowerFrom(str, 1)

\* `kw in q` on strings: kw is a substring of q.
Contains(q, kw) ==
    \E i \in 1..(Len(q) - Len(kw) + 1) : SubSeq(q, i, i + Len(kw) - 1) = kw

\* `x in intents` on a list.
InList(x, list) == \E i \in 1..Len(list) : list[i] = x

\* detect_intent without the `if "<intent>" in intents` checks: a keyword
\* group returns its intent whether or not it is configured.
detect_intent_unguarded(user_query, intents) ==
    LET q == lower(user_query)
    IN  IF Contains(q, Text("why")) \/ Contains(q, Text("reason")) \/ Contains(q, Text("explain"))
        THEN "why_explanation"
        ELSE IF Contains(q, Text("segment")) \/ Contains(q, Text("persona")) \/ Contains(q, Text("cohort"))
        THEN "segment_analysis"
        ELSE IF Contains(q, Text("graph")) \/ Contains(q, Text("relation")) \/ Contains(q, Text("connect"))
        THEN "kg_explore"
        ELSE IF Contains(q, Text("next best")) \/ Contains(q, Text("next-best")) \/ Contains(q, Text("nba"))
                \/ Contains(q, Text("next action"))
        THEN "member_nba"
        ELSE IF InList("general_help", intents) THEN "general_help"
        ELSE intents[1]

\* detect_intent with the member_nba group tried first.
detect_intent_nba_first(user_query, intents) ==
    LET q == lower(user_query)
    IN  IF (Contains(q, Text("next best")) \/ Contains(q, Text("next-best")) \/ Contains(q, Text("nba"))
            \/ Contains(q, Text("next action")))
           /\ InList("member_nba", intents)
        THEN "member_nba"
        ELSE IF (Contains(q, Text("why")) \/ Contains(q, Text("reason")) \/ Contains(q, Text("explain")))
                /\ InList("why_explanation", intents)
        THEN "why_explanation"
        ELSE IF (Contains(q, Text("segment")) \/ Contains(q, Text("persona")) \/ Contains(q, Text("cohort")))
                /\ InList("segment_analysis", intents)
        THEN "segment_analysis"
        ELSE IF (Contains(q, Text("graph")) \/ Contains(q, Text("relation")) \/ Contains(q, Text("connect")))
                /\ InList("kg_explore", intents)
        THEN "kg_explore"
        ELSE IF InList("general_help", intents) THEN "general_help"
        ELSE intents[1]

\* _detect_intent(user_query, intents)
detect_intent(user_query, intents) ==
    LET q == lower(user_query)
    IN  IF (Contains(q, Text("why")) \/ Contains(q, Text("reason")) \/ Contains(q, Text("explain")))
           /\ InList("why_explanation", intents)
        THEN "why_explanation"
        ELSE IF (Contains(q, Text("segment")) \/ Contains(q, Text("persona")) \/ Contains(q, Text("cohort")))
                /\ InList("segment_analysis", intents)
        THEN "segment_analysis"
        ELSE IF (Contains(q, Text("graph")) \/ Contains(q, Text("relation")) \/ Contains(q, Text("connect")))
                /\ InList("kg_explore", intents)
        THEN "kg_explore"
        ELSE IF (Contains(q, Text("next best")) \/ Contains(q, Text("next-best")) \/ Contains(q, Text("nba"))
                 \/ Contains(q, Text("next action")))
                /\ InList("member_nba", intents)
        THEN "member_nba"
        ELSE IF InList("general_help", intents) THEN "general_help"
        ELSE intents[1]

\* top_k=10 in answer_query's call of _search_facts.
RouterTopK == 10
\* MAX_RECS in _load_member_recos_for_member.
MAX_RECS == 50

\* `except Exception` catches the error e: every error raised in this model
\* is an Exception.
IsException(e) ==
    e \in {"RuntimeError", "FileNotFoundError", "ReadError", "OSError", "IndexError",
           "YAMLError", "AttributeError", "ValueError", "KeyError", "TypeError",
           "ConnectionError", "Timeout", "HTTPError", "JSONDecodeError"}

\* The n rows of the recommendation file that belong to the member; the
\* column incremental_renewal_rate holds values of the kind uplift ("float",
\* or "str" for a column of text).
RecoRows(n, uplift) ==
    [i \in 1..n |-> [member_rank |-> i, incremental_renewal_rate |-> [kind |-> uplift]]]

\* load_member_recos_for_member without the `[:MAX_RECS]` slice.
load_member_recos_uncapped(env, membership_nbr) ==
    IF membership_nbr = "None" THEN Ok(<<>>)
    ELSE IF env.config = "app_unreadable" THEN Raise("YAMLError")
    ELSE IF env.reco_file # "ok" THEN Ok(<<>>)
    ELSE Ok(RecoRows(env.reco_rows, env.reco_uplift))

\* _load_member_recos_for_member(project_root, membership_nbr): app.yaml is
\* read outside the function's own try; a missing file gives [], an error
\* while reading gives [], the rows are capped at MAX_RECS.
load_member_recos_for_member(env, membership_nbr) ==
    IF membership_nbr = "None" THEN Ok(<<>>)
    ELSE IF env.config = "app_unreadable" THEN Raise("YAMLError")
    ELSE IF env.reco_file # "ok" THEN Ok(<<>>)
    ELSE Ok(SubSeq(RecoRows(env.reco_rows, env.reco_uplift), 1,
                   IF env.reco_rows < MAX_RECS THEN env.reco_rows ELSE MAX_RECS))

\* answer_query's "Member recos" block: [loaded, logged, member_recos, err].
\* The loader is called for a given member and the intents member_nba and
\* why_explanation unless RI_DISABLE_MEMBER_RECOS is set; an exception is
\* logged and gives [].
MemberRecos(env, membership_nbr, intent) ==
    IF membership_nbr # "None" /\ intent \in {"member_nba", "why_explanation"}
       /\ ~env.disable_member_recos
    THEN Only({ [loaded |-> TRUE,
                 logged |-> r.err # "none" /\ IsException(r.err),
                 member_recos |-> IF r.err = "none" THEN r.val ELSE <<>>,
                 err |-> IF r.err = "none" \/ IsException(r.err) THEN "none" ELSE r.err]
                : r \in {load_member_recos_for_member(env, membership_nbr)} })
    ELSE [loaded |-> FALSE, logged |-> FALSE, member_recos |-> <<>>, err |-> "none"]

\* _load_vector_store(project_root) up to the first read of store.load():
\* both configs are read (an unparsable one raises YAMLError, an empty
\* llm.yaml loads as None and llm_cfg.get raises AttributeError), a new
\* VectorStore is made, load() tests that both files exist and reads the
\* index file. [err, index]: the error raised and the store's index.
load_vector_store_index(env, ifile, mfile) ==
    IF env.config \in {"app_unreadable", "llm_unreadable"}
    THEN [err |-> "YAMLError", index |-> None]
    ELSE IF env.config = "llm_empty" THEN [err |-> "AttributeError", index |-> None]
    ELSE IF ~Exists(ifile) \/ ~Exists(mfile)
    THEN [err |-> "FileNotFoundError", index |-> None]
    ELSE IF ~Readable(ifile) THEN [err |-> "ReadError", index |-> None]
    ELSE [err |-> "none", index |-> read_index(ifile)]

\* The second read of store.load(), pd.read_parquet on the metadata file.
\* [err, metadata]: the error raised and the store's metadata.
load_vector_store_metadata(mfile) ==
    IF ~Readable(mfile) THEN [err |-> "ReadError", metadata |-> None]
    ELSE [err |-> "none", metadata |-> read_parquet(mfile)]

\* _search_facts(store, user_query, top_k=10) on the store _load_vector_store
\* returned, whose embedding model is the one named in llm.yaml: a search
\* without filters.
search_facts(env, ix, md, user_query, asc) ==
    SearchWith(env.model_name, ix, md, "None", user_query, RouterTopK, {}, asc).ret

\* prompts._format_recos_for_prompt(recos): `r.get("incremental_renewal_rate",
\* 0.0) * 10000.0` raises TypeError on a value that is no number.
format_recos_for_prompt(recos) ==
    IF recos = <<>> THEN Ok("No precomputed member recommendations.")
    ELSE IF \E i \in 1..Len(recos) : recos[i].incremental_renewal_rate.kind # "float"
    THEN Raise("TypeError")
    ELSE Ok("[Reco rank=...]")

\* prompts.build_*_messages for the intent: the user message is made of the
\* query, the recommendations (member_nba and why_explanation only) and the
\* facts. An exception of the formatter goes through.
BuildMessages(intent, user_query, recos, facts) ==
    IF intent \in {"member_nba", "why_explanation"}
       /\ format_recos_for_prompt(recos).err # "none"
    THEN Raise(format_recos_for_prompt(recos).err)
    ELSE Ok([builder |-> IF intent \in {"member_nba", "segment_analysis",
                                        "why_explanation", "kg_explore"}
                         THEN intent ELSE "general_help",
             user_query |-> user_query,
             member_recos |-> IF intent \in {"member_nba", "why_explanation"}
                              THEN recos ELSE <<>>,
             retrieved_facts |-> facts])

\* _fallback_no_llm_answer: the text names the intent, the query and the
\* number of recommendations and of facts.
fallback_no_llm_answer(user_query, intent, recos, facts) ==
    [text |-> "LLM is disabled in this environment.",
     lines |-> <<intent, user_query, Len(recos), Len(facts)>>]

\* The reply of OllamaClient.chat(msgs): the stripped content of the model's
\* message, which can be empty, or the client's error text.
ChatReply(env, msgs) ==
    [text |-> CASE env.ollama = "reply" -> "stubbed answer"
                [] env.ollama = "empty" -> ""
                [] OTHER -> "Error calling Ollama model",
     lines |-> <<>>]

\* The record answer_query returns.
AnswerRecord(answer, intent, membership_nbr) ==
    [answer |-> answer, intent |-> intent, used_member_nbr |-> membership_nbr]

\* The value of ret while a call or a run has not ended.
Pending == [err |-> "pending", val |-> <<>>]

\* The value of ret while answer_query is at the position pos of its body,
\* with its local intent: "load_index" before _load_vector_store, "load_meta"
\* inside store.load() between its two reads, "search" before _search_facts,
\* "messages" before the messages are built, "chat" inside client.chat.
At(pos, intent) == [err |-> "pending", val |-> <<pos, intent>>]

\* answer_query was called and has not returned or raised.
InCall == op = "answer_query" /\ ret.err = "pending"

\* answer_query is inside client.chat, waiting in requests.post for the
\* server's reply.
Waiting == InCall /\ ret.val[1] = "chat"

\* answer_query from the intent detection to the end of its "Member recos"
\* block: the call goes on at the retrieval, or at the messages when
\* RI_DISABLE_RETRIEVAL is set. calls lists the functions called and the
\* errors logged with logger.exception.
Routed(env, user_query, membership_nbr, intent) ==
    Only({
        IF m.err # "none"
        THEN [ret |-> Raise(m.err), member_recos |-> <<>>,
              calls |-> <<"load_yaml", "_load_member_recos_for_member">>]
        ELSE [ret |-> At(IF env.disable_retrieval THEN "messages" ELSE "load_index",
                         intent),
              member_recos |-> m.member_recos,
              calls |-> <<"load_yaml">>
                        \o (IF m.loaded THEN <<"_load_member_recos_for_member">> ELSE <<>>)
                        \o (IF m.logged THEN <<"logger.exception">> ELSE <<>>)]
        : m \in {MemberRecos(env, membership_nbr, intent)} })

\* answer_query(user_query, membership_nbr) in the surroundings env up to
\* the end of its "Member recos" block: the debug echo, the guarded load of
\* llm.yaml (an empty llm.yaml loads as None and llm_cfg.get raises), the
\* intent, the member recommendations. The query goes to _detect_intent as
\* the str it spells.
AnswerOutcome(env, user_query, membership_nbr) ==
    IF env.debug_echo
    THEN [ret |-> Ok(AnswerRecord([text |-> "[DEBUG ECHO] You asked:",
                                   lines |-> <<user_query, membership_nbr>>],
                                  "debug_echo", membership_nbr)),
          member_recos |-> <<>>, calls |-> <<>>]
    ELSE IF env.config = "llm_unreadable" /\ IsException("YAMLError")
    THEN [ret |-> Ok(AnswerRecord([text |-> "Error loading LLM config:", lines |-> <<>>],
                                  "config_error", membership_nbr)),
          member_recos |-> <<>>, calls |-> <<"load_yaml", "logger.exception">>]
    ELSE IF env.config = "llm_unreadable"
    THEN [ret |-> Raise("YAMLError"), member_recos |-> <<>>, calls |-> <<"load_yaml">>]
    ELSE IF env.config = "llm_empty"
    THEN [ret |-> Raise("AttributeError"), member_recos |-> <<>>, calls |-> <<"load_yaml">>]
    ELSE Routed(env, user_query, membership_nbr,
                detect_intent(Text(user_query),
                              IF env.intents = <<>> THEN <<"general_help">> ELSE env.intents))

\* answer_query is called: it runs to the end of its "Member recos" block.
\* The calls that end before (debug echo, llm.yaml unreadable or empty) read
\* no file of the vector store and end here.
AnswerQuery(user_query, membership_nbr, env) ==
    /\ ~InCall
    /\ op' = "answer_query"
    /\ args' = [user_query |-> user_query, membership_nbr |-> membership_nbr,
                env |-> env]
    /\ cand' = <<>>
    /\ \E o \in {AnswerOutcome(env, user_query, membership_nbr)} :
          /\ ret' = o.ret
          /\ calls' = o.calls
          /\ member_recos' = o.member_recos
    /\ retrieved_facts' = <<>>
    /\ UNCHANGED <<memory, disk, model_name, threads>>

\* The except block of the "Retrieval" block for the error e, cs being the
\* calls so far: the error is logged, retrieved_facts is [] and the call
\* goes on at the messages; an error that is no Exception leaves
\* answer_query. The store is dropped.
RetrievalFailed(e, cs) ==
    /\ index' = None
    /\ metadata' = None
    /\ retrieved_facts' = <<>>
    /\ ret' = IF IsException(e) THEN At("messages", ret.val[2]) ELSE Raise(e)
    /\ calls' = IF IsException(e) THEN cs \o <<"logger.exception">> ELSE cs
    /\ UNCHANGED <<op, args, cand, model, disk, model_name, threads, member_recos>>

\* _load_vector_store is called; store.load() tests the files as they are
\* now and reads the index file.
AnswerLoadIndex ==
    /\ InCall
    /\ ret.val[1] = "load_index"
    /\ \E l \in {load_vector_store_index(args.env, index_file, meta_file)} :
          IF l.err # "none" THEN RetrievalFailed(l.err, Append(calls, "_load_vector_store"))
          ELSE /\ index' = l.index
               /\ ret' = At("load_meta", ret.val[2])
               /\ calls' = Append(calls, "_load_vector_store")
               /\ UNCHANGED <<op, args, cand, model, metadata, disk, others>>

\* store.load() reads the metadata file as it is now.
AnswerLoadMeta ==
    /\ InCall
    /\ ret.val[1] = "load_meta"
    /\ \E l \in {load_vector_store_metadata(meta_file)} :
          IF l.err # "none" THEN RetrievalFailed(l.err, calls)
          ELSE /\ metadata' = l.metadata
               /\ ret' = At("search", ret.val[2])
               /\ UNCHANGED <<op, args, calls, cand, model, index, disk, others>>

\* _search_facts on the loaded store; the store is not used after it.
AnswerSearch(asc) ==
    /\ InCall
    /\ ret.val[1] = "search"
    /\ \E r \in {search_facts(args.env, index, metadata, args.user_query, asc)} :
          IF r.err # "none" THEN RetrievalFailed(r.err, calls)
          ELSE /\ retrieved_facts' = r.val
               /\ index' = None
               /\ metadata' = None
               /\ ret' = At("messages", ret.val[2])
               /\ UNCHANGED <<op, args, calls, cand, model, disk, model_name, threads,
                              member_recos>>

\* answer_query's "Build messages" block and the start of its "LLM call or
\* fallback" block: an error of the prompt builder leaves answer_query; with
\* RI_DISABLE_OLLAMA, or when OllamaClient.from_llm_config raises, the
\* fallback answer is returned; otherwise client.chat is entered.
AnswerMessages ==
    /\ InCall
    /\ ret.val[1] = "messages"
    /\ \E msgs \in {BuildMessages(ret.val[2], args.user_query, member_recos,
                                  retrieved_facts)} :
          IF msgs.err # "none"
          THEN /\ ret' = Raise(msgs.err)
               /\ calls' = Append(calls, "prompts.build_messages")
          ELSE IF args.env.disable_ollama
          THEN /\ ret' = Ok(AnswerRecord(
                              fallback_no_llm_answer(args.user_query, ret.val[2],
                                                     member_recos, retrieved_facts),
                              ret.val[2], args.membership_nbr))
               /\ calls' = Append(calls, "prompts.build_messages")
          ELSE IF args.env.ollama = "unsupported_provider" /\ IsException("ValueError")
          THEN /\ ret' = Ok(AnswerRecord(
                              fallback_no_llm_answer(args.user_query, ret.val[2],
                                                     member_recos, retrieved_facts),
                              ret.val[2], args.membership_nbr))
               /\ calls' = calls \o <<"prompts.build_messages", "logger.exception">>
          ELSE IF args.env.ollama = "unsupported_provider"
          THEN /\ ret' = Raise("ValueError")
               /\ calls' = Append(calls, "prompts.build_messages")
          ELSE /\ ret' = At("chat", ret.val[2])
               /\ calls' = calls \o <<"prompts.build_messages", "OllamaClient.chat">>
    /\ UNCHANGED <<op, args, cand, memory, disk, others>>

\* The server's reply arrives (or requests.post fails): client.chat returns
\* its string and answer_query returns the record made of it.
AnswerReturn ==
    /\ Waiting
    /\ ret' = Ok(AnswerRecord(
                    ChatReply(args.env,
                              BuildMessages(ret.val[2], args.user_query, member_recos,
                                            retrieved_facts).val),
                    ret.val[2], args.membership_nbr))
    /\ UNCHANGED <<op, args, calls, cand, memory, disk, others>>

\* What one run of the offline build, run_retrieval.main, ends with and
\* leaves on disk, docs being what to_documents makes of the corpus table:
\* on a table of 0 rows build_nba_fact_corpus raises ValueError (df.apply
\* gives a DataFrame, which `df["text"] = ...` refuses) before any document
\* exists; otherwise a new VectorStore, build_from_docs(docs), save(). The
\* run can die inside save (point "index", "between", "meta") or go through
\* ("none"); when build_from_docs raises the run ends before save.
RunOutcome(name, docs, point, ifile, mfile) ==
    IF Len(docs) = 0
    THEN [ret |-> Raise("ValueError"), index_file |-> ifile, meta_file |-> mfile]
    ELSE Only({
        IF b.ret.err # "none"
        THEN [ret |-> b.ret, index_file |-> ifile, meta_file |-> mfile]
        ELSE [ret |-> IF point = "none" THEN Ok(<<>>) ELSE Raise("crash"),
              index_file |-> IF point = "index" THEN Torn ELSE write_index(b.index),
              meta_file |-> CASE point = "none" -> to_parquet(b.metadata)
                              [] point = "meta" -> Torn
                              [] OTHER -> mfile]
        : b \in {BuildWith(name, None, None, "None", docs)} })

\* One run of the offline build, in a process of its own. While an
\* answer_query is under way the run goes on beside it: the call's record
\* (op, args, ret, calls) and its locals stay, the files change.
RunRetrieval(docs, point) ==
    /\ \E o \in {RunOutcome(model_name, docs, point, index_file, meta_file)} :
          /\ index_file' = o.index_file
          /\ meta_file' = o.meta_file
          /\ IF InCall
             THEN UNCHANGED <<op, args, ret, calls, cand>>
             ELSE /\ op' = "run_retrieval"
                  /\ args' = [docs |-> docs, point |-> point]
                  /\ ret' = o.ret
                  /\ calls' = <<>>
                  /\ cand' = <<>>
    /\ UNCHANGED <<memory, model_name, threads, member_recos, retrieved_facts>>

\* The document lists of the offline builds here.
RouterDocLists == { to_documents(SubSeq(CorpusRows, 1, n)) : n \in {0, 2, MaxDocs} }

RouterQueries == {"Why this NBA?", "qa"}
MemberNumbers == {"None", "123456"}

AllIntents ==
    <<"member_nba", "segment_analysis", "why_explanation", "kg_explore", "general_help">>

\* The usual surroundings: no flag set, configs readable, the five intents,
\* the default embedding model, two recommendation rows, Ollama replying.
DefaultEnv ==
    [debug_echo |-> FALSE, disable_retrieval |-> FALSE, disable_ollama |-> FALSE,
     disable_member_recos |-> FALSE, config |-> "ok", intents |-> AllIntents,
     model_name |-> DefaultModelName, reco_file |-> "ok", reco_rows |-> 2,
     reco_uplift |-> "float", ollama |-> "reply"]

\* The surroundings that differ from the usual ones in one respect.
OneOff ==
    {[DefaultEnv EXCEPT !.debug_echo = TRUE],
     [DefaultEnv EXCEPT !.disable_ollama = TRUE],
     [DefaultEnv EXCEPT !.disable_member_recos = TRUE],
     [DefaultEnv EXCEPT !.config = "llm_unreadable"],
     [DefaultEnv EXCEPT !.config = "llm_empty"],
     [DefaultEnv EXCEPT !.config = "app_unreadable"],
     [DefaultEnv EXCEPT !.intents = <<>>],
     [DefaultEnv EXCEPT !.intents = <<"kg_explore", "member_nba">>],
     [DefaultEnv EXCEPT !.model_name = "no-such-model"],
     [DefaultEnv EXCEPT !.reco_file = "missing"],
     [DefaultEnv EXCEPT !.reco_rows = MAX_RECS + 1],
     [DefaultEnv EXCEPT !.reco_uplift = "str"],
     [DefaultEnv EXCEPT !.ollama = "empty"],
     [DefaultEnv EXCEPT !.ollama = "http_error"],
     [DefaultEnv EXCEPT !.ollama = "unsupported_provider"]}

\* The surroundings answer_query is called in: the usual ones and the
\* one-off ones, each with retrieval enabled and disabled.
RouterEnvs ==
    {[e EXCEPT !.disable_retrieval = b] : e \in {DefaultEnv} \cup OneOff, b \in BOOLEAN}

RouterInit ==
    /\ model = "None"
    /\ index = None
    /\ metadata = None
    /\ index_file = NoFile
    /\ meta_file = NoFile
    /\ op = "init"
    /\ args = NoArgs
    /\ ret = Ok(<<>>)
    /\ calls = <<>>
    /\ cand = <<>>
    /\ model_name = DefaultModelName
    /\ threads = <<>>
    /\ member_recos = <<>>
    /\ retrieved_facts = <<>>

RouterNext ==
    \/ \E docs \in RouterDocLists, point \in {"none", "index", "between", "meta"} :
          RunRetrieval(docs, point)
    \/ \E user_query \in RouterQueries, membership_nbr \in MemberNumbers,
          env \in RouterEnvs :
          AnswerQuery(user_query, membership_nbr, env)
    \/ AnswerLoadIndex
    \/ AnswerLoadMeta
    \/ \E asc \in BOOLEAN : AnswerSearch(asc)
    \/ AnswerMessages
    \/ AnswerReturn

RouterSpec == RouterInit /\ [][RouterNext]_vars

----------------------------------------------------------------------------
(* The offline build, statement by statement: run_retrieval.main. One run  *)
(* is one process; calls lists the steps of main the run has entered, ret  *)
(* is Pending while the run goes on. The files outlive the runs.           *)

\* A run of main is under way.
Running == op = "run_retrieval" /\ ret.err = "pending"

\* The run has entered n of the steps of main.
Reached(n) == Running /\ Len(calls) = n

\* What a step of main leaves alone when it only computes a local value.
PipelineFrame == UNCHANGED <<op, args, cand, memory, disk, others>>

\* The document lists to_documents yields in the runs here.
PipelineDocLists ==
    { to_documents(SubSeq(CorpusRows, 1, n)) : n \in {0, 1, 2, MaxDocs} }

\* The uplift summary a run finds: absent, or a table lacking the columns
\* `lacking` of NbaUpliftSchema (incremental_rank and uplift_method are
\* never read).
UpliftStates ==
    {[exists |-> FALSE, lacking |-> {}]}
    \cup {[exists |-> TRUE, lacking |-> l] :
            l \in {{}, {"persona_id"}, {"test_renewal_rate"}, {"n_test_matched"},
                   {"entity_name"}, {"uplift_method"}}}

\* build_nba_fact_corpus(uplift_df, cfg) on a table lacking the columns
\* `lacking`, nrows rows of which are left after the support filter, which
\* runs when min_support_for_corpus is positive: the error it raises, or
\* "none". It reads columns of the table in the support filter (lines
\* 14-18), while it makes doc_id (lines 41-50), inside format_fact, which
\* df.apply calls once per row (the default of row.get is computed whether
\* or not entity_name is there), and in the selection of line 55. With no
\* row df.apply gives a DataFrame and `df["text"] = ...` raises ValueError,
\* format_fact reading nothing.
build_nba_fact_corpus(lacking, min_support, nrows) ==
    LET SupportColumns == {"n_test_matched", "n_control_matched"}
        DocIdColumns == {"persona_id", "tenure_bucket", "entity_type", "entity_id"}
        FormatFactColumns ==
            {"persona_id", "tenure_bucket", "entity_type", "entity_id",
             "incremental_renewal_rate", "test_renewal_rate", "control_renewal_rate",
             "n_test_matched", "n_control_matched"}
        SelectedColumns == FormatFactColumns \cup {"entity_name"}
    IN  IF min_support /\ lacking \cap SupportColumns # {} THEN "KeyError"
        ELSE IF lacking \cap DocIdColumns # {} THEN "KeyError"
        ELSE IF nrows = 0 THEN "ValueError"
        ELSE IF lacking \cap FormatFactColumns # {} THEN "KeyError"
        ELSE IF lacking \cap SelectedColumns # {} THEN "KeyError"
        ELSE "none"

\* main() up to `uplift_df = read_df(nba_path)`: a new process, no store yet;
\* `if not nba_path.exists(): raise FileNotFoundError`. docs are the
\* documents of the rows the corpus will have.
PipelineStart(uplift, min_support, docs, name) ==
    /\ ~Running
    /\ op' = "run_retrieval"
    /\ args' = [uplift |-> uplift, min_support |-> min_support, docs |-> docs,
                model_name |-> name]
    /\ ret' = IF ~uplift.exists THEN Raise("FileNotFoundError") ELSE Pending
    /\ calls' = <<>>
    /\ cand' = <<>>
    /\ model' = "None"
    /\ index' = None
    /\ metadata' = None
    /\ UNCHANGED disk
    /\ UNCHANGED others

\* 1) corpus_df = build_nba_fact_corpus(uplift_df, cfg=...)
StepBuildCorpus ==
    /\ Reached(0)
    /\ calls' = Append(calls, "build_nba_fact_corpus")
    /\ \E e \in {build_nba_fact_corpus(args.uplift.lacking, args.min_support,
                                       Len(args.docs))} :
          ret' = IF e = "none" THEN Pending ELSE Raise(e)
    /\ PipelineFrame

\* 2) corpus_df = trivial_chunk_corpus(corpus_df)
StepChunk ==
    /\ Reached(1)
    /\ calls' = Append(calls, "trivial_chunk_corpus")
    /\ ret' = Pending
    /\ PipelineFrame

\* 3) docs = to_documents(corpus_df, text_col="text", id_col="doc_id")
StepToDocuments ==
    /\ Reached(2)
    /\ calls' = Append(calls, "to_documents")
    /\ ret' = Pending
    /\ PipelineFrame

\* store = VectorStore(cfg=vs_cfg, base_dir=retrieval_dir), the model name
\* taken from llm.yaml.
StepVectorStore ==
    /\ Reached(3)
    /\ calls' = Append(calls, "VectorStore")
    /\ ret' = Pending
    /\ model_name' = args.model_name
    /\ model' = "None"
    /\ index' = None
    /\ metadata' = None
    /\ UNCHANGED <<op, args, cand, disk, threads, member_recos, retrieved_facts>>

\* StepBuildFromDocs inside `try: ... except Exception: pass`: the run goes
\* on to save whatever build_from_docs did.
StepBuildFromDocsSwallowing ==
    /\ Reached(4)
    /\ \E o \in {BuildWith(model_name, index, metadata, model, args.docs)} :
          /\ ret' = Pending
          /\ model' = o.model
          /\ index' = o.index
          /\ metadata' = o.metadata
    /\ calls' = Append(calls, "build_from_docs")
    /\ UNCHANGED <<op, args, cand, disk, others>>

\* store.build_from_docs(docs): an exception ends the run.
StepBuildFromDocs ==
    /\ Reached(4)
    /\ \E o \in {BuildWith(model_name, index, metadata, model, args.docs)} :
          /\ ret' = IF o.ret.err = "none" THEN Pending ELSE o.ret
          /\ model' = o.model
          /\ index' = o.index
          /\ metadata' = o.metadata
    /\ calls' = Append(calls, "build_from_docs")
    /\ UNCHANGED <<op, args, cand, disk, others>>

\* store.save(), the last statement that can fail: the run ends.
StepSave ==
    /\ Reached(5)
    /\ \E o \in {SaveOutcome(index, metadata, index_file, meta_file)} :
          /\ ret' = o.ret
          /\ index_file' = o.index_file
          /\ meta_file' = o.meta_file
    /\ calls' = Append(calls, "save")
    /\ UNCHANGED <<op, args, cand, memory, others>>

PipelineInit == Init

PipelineNext ==
    \/ \E uplift \in UpliftStates, min_support \in BOOLEAN, docs \in PipelineDocLists,
          name \in ModelNames :
          PipelineStart(uplift, min_support, docs, name)
    \/ StepBuildCorpus
    \/ StepChunk
    \/ StepToDocuments
    \/ StepVectorStore
    \/ StepBuildFromDocs
    \/ StepSave

PipelineSpec == PipelineInit /\ [][PipelineNext]_vars

----------------------------------------------------------------------------
(* _detect_intent on its own: the query and the intent list are chosen,    *)
(* then the function is applied. The list is not empty, as answer_query    *)
(* makes sure before the call.                                             *)

\* The queries: plain ASCII ones, and ones with capitals above U+007F: I with
\* acute, I with dot above (whose lower case is two code points), Greek
\* capitals ending in a sigma, Cyrillic capitals and the Kelvin sign (whose
\* lower case is k).
IntentQueries ==
    {Text("qa"), Text("hello"), Text("Why this NBA?"), Text("Explain the persona graph"),
     Text("Which cohort connects?"), Text("next best action for persona 3"),
     Text("What are the best actions for persona 3?"), Text("NEXT-BEST offer"),
     Text("relations in the graph for nba"), Text("Seasonal discounts"),
     Text("EXPL") \o <<205>> \o Text("CAME el NBA"),
     Text("EXPLA") \o <<304>> \o Text("N the NBA"),
     <<923, 927, 915, 927, 931>> \o Text(": segment"),
     <<1055, 1054, 1063, 1045, 1052, 1059>> \o Text(" graph"),
     <<8490>> \o Text("G relation")}

IntentLists ==
    {AllIntents,
     <<"general_help">>,
     <<"why_explanation">>,
     <<"segment_analysis">>,
     <<"kg_explore", "member_nba">>,
     <<"member_nba", "why_explanation">>,
     <<"segment_analysis", "kg_explore", "general_help">>,
     <<"general_help", "kg_explore", "why_explanation", "segment_analysis", "member_nba">>}

\* intent = _detect_intent(user_query, intents)
DetectIntent ==
    /\ op = "init"
    /\ op' = "_detect_intent"
    /\ ret' = Ok(detect_intent(args.user_query, args.intents))
    /\ UNCHANGED <<args, calls, cand, memory, disk, others>>

IntentInit ==
    /\ model = "None"
    /\ index = None
    /\ metadata = None
    /\ index_file = NoFile
    /\ meta_file = NoFile
    /\ op = "init"
    /\ args \in [user_query : IntentQueries, intents : IntentLists]
    /\ ret = Ok(<<>>)
    /\ calls = <<>>
    /\ cand = <<>>
    /\ model_name = DefaultModelName
    /\ threads = <<>>
    /\ member_recos = <<>>
    /\ retrieved_facts = <<>>

IntentNext == DetectIntent

IntentSpec == IntentInit /\ [][IntentNext]_vars

----------------------------------------------------------------------------
(* The LLM client: src/llm/ollama_client.py, OllamaClient.chat. What the   *)
(* server does is resp: [transport, status, body]. A JSON body is          *)
(* [kind, repr, message, choices]: repr is str(data), message is           *)
(* data.get("message"), choices is data["choices"] when the key is there.  *)

\* JSON values of the body, every record with the same fields; text is
\* str(value), a str as a sequence of code points.
Absent == [kind |-> "absent", text |-> <<>>]
JStr(text) == [kind |-> "str", text |-> text]
JInt(text) == [kind |-> "int", text |-> text]
JNull == [kind |-> "none", text |-> Text("None")]
NoContent == [kind |-> "absent", content |-> Absent]
JMessage(content) == [kind |-> "dict", content |-> content]
JNotDict == [kind |-> "str", content |-> Absent]
JChoice(message) == [kind |-> "dict", message |-> message]
JChoiceNotDict == [kind |-> "str", message |-> NoContent]
NoChoices == [kind |-> "absent", items |-> <<>>]
JChoices(items) == [kind |-> "list", items |-> items]
JDict(repr, message, choices) ==
    [kind |-> "dict", repr |-> repr, message |-> message, choices |-> choices]
JOther(kind, repr) ==
    [kind |-> kind, repr |-> repr, message |-> NoContent, choices |-> NoChoices]

\* str.isspace() on one code point: the characters str.strip() removes.
IsSpace(c) ==
    c \in (9..13) \cup (28..32) \cup {133, 160, 5760} \cup (8192..8202)
           \cup {8232, 8233, 8239, 8287, 12288}

RECURSIVE lstrip(_)
lstrip(str) ==
    IF Len(str) = 0 THEN <<>>
    ELSE IF IsSpace(str[1]) THEN lstrip(SubSeq(str, 2, Len(str)))
    ELSE str

RECURSIVE rstrip(_)
rstrip(str) ==
    IF Len(str) = 0 THEN <<>>
    ELSE IF IsSpace(str[Len(str)]) THEN rstrip(SubSeq(str, 1, Len(str) - 1))
    ELSE str

\* str.strip()
strip(str) == rstrip(lstrip(str))

\* str(x.get("content", "")): the text of a string, the decimal form of a
\* number, "None" for null, "" when the key is absent.
StrOfContent(content) == content.text

\* data["choices"][0].get("message", {}).get("content", ""), stripped.
FirstChoice(choices) ==
    IF choices.kind # "list" THEN Raise("TypeError")
    ELSE IF choices.items = <<>> THEN Raise("IndexError")
    ELSE IF choices.items[1].kind # "dict" THEN Raise("AttributeError")
    ELSE IF choices.items[1].message.kind = "absent" THEN Ok(<<>>)
    ELSE IF choices.items[1].message.kind # "dict" THEN Raise("AttributeError")
    ELSE Ok(strip(StrOfContent(choices.items[1].message.content)))

\* The statements inside chat's try: requests.post, raise_for_status,
\* resp.json(), then the walk through the decoded data.
ChatBody(resp) ==
    IF resp.transport # "ok" THEN Raise(resp.transport)
    ELSE IF resp.status >= 400 THEN Raise("HTTPError")
    ELSE IF resp.body.kind = "invalid" THEN Raise("JSONDecodeError")
    ELSE IF resp.body.kind # "dict" THEN Ok(resp.body.repr)
    ELSE IF resp.body.message.kind = "dict"
    THEN Ok(strip(StrOfContent(resp.body.message.content)))
    ELSE IF resp.body.choices.kind # "absent" THEN FirstChoice(resp.body.choices)
    ELSE Ok(resp.body.repr)

\* chat with `except requests.RequestException` in place of `except
\* Exception`: only the errors of the HTTP call are turned into a string.
chat_catching_requests_only(messages, resp) ==
    Only({ IF r.err \in {"ConnectionError", "Timeout", "HTTPError"}
           THEN Ok(Text("Error calling Ollama model: ") \o Text(r.err))
           ELSE r
           : r \in {ChatBody(resp)} })

\* chat(messages): the string the try block returns, or the error message
\* of `except Exception as e`, f"Error calling Ollama model: {e}", with the
\* error's name standing for its text.
chat(messages, resp) ==
    Only({ IF r.err # "none" /\ IsException(r.err)
           THEN Ok(Text("Error calling Ollama model: ") \o Text(r.err))
           ELSE r
           : r \in {ChatBody(resp)} })

\* client.chat(messages=args.messages) against the server behaviour args.resp.
Chat ==
    /\ op = "init"
    /\ op' = "chat"
    /\ ret' = chat(args.messages, args.resp)
    /\ calls' = <<"requests.post">>
    /\ UNCHANGED <<args, cand, memory, disk, others>>

\* The message lists chat is called with.
ChatMessages ==
    { <<>>,
      <<[role |-> "user", content |-> "qa"]>>,
      <<[role |-> "system", content |-> "You are an assistant."],
        [role |-> "user", content |-> "Why this NBA?"]>> }

\* The contents a message can carry, each with str() of the message object
\* that carries it: no content, strings (empty, blank, edged by ASCII
\* whitespace, by CR, FF and VT, by U+001C to U+001F, by U+0085, U+00A0 and
\* whitespace above U+00FF, with whitespace and a zero width space inside), a
\* number and null.
ChatContents ==
    {[content |-> Absent, repr |-> Text("{}")],
     [content |-> JStr(<<>>), repr |-> Text("{'content': ''}")],
     [content |-> JStr(Text("  ")), repr |-> Text("{'content': '  '}")],
     [content |-> JStr(Text(" stubbed answer\n")),
      repr |-> Text("{'content': ' stubbed answer\\n'}")],
     [content |-> JStr(Text("stubbed answer")),
      repr |-> Text("{'content': 'stubbed answer'}")],
     [content |-> JStr(Text("\r\f") \o <<11>> \o Text("stubbed answer\r\n")),
      repr |-> Text("{'content': '\\r\\x0c\\x0bstubbed answer\\r\\n'}")],
     [content |-> JStr(<<28, 29>> \o Text("stubbed answer") \o <<30, 31>>),
      repr |-> Text("{'content': '\\x1c\\x1dstubbed answer\\x1e\\x1f'}")],
     [content |-> JStr(<<133, 160>> \o Text("stubbed") \o <<160>> \o Text("answer")
                       \o <<160, 133>>),
      repr |-> Text("{'content': '\\x85\\xa0stubbed\\xa0answer\\xa0\\x85'}")],
     [content |-> JStr(<<8195, 12288>> \o Text("stubbed answer") \o <<8232, 5760>>),
      repr |-> Text("{'content': '\\u2003\\u3000stubbed answer\\u2028\\u1680'}")],
     [content |-> JStr(<<8203>> \o Text("stubbed answer") \o <<8203>>),
      repr |-> Text("{'content': '\\u200bstubbed answer\\u200b'}")],
     [content |-> JStr(<<160, 8233, 31>>),
      repr |-> Text("{'content': '\\xa0\\u2029\\x1f'}")],
     [content |-> JInt(Text("42")), repr |-> Text("{'content': 42}")],
     [content |-> JNull, repr |-> Text("{'content': None}")]}

\* What is under "choices", each with its str(): nothing, null, or a list.
\* The choice that is no object is the string 'x', the message that is no
\* object the string 'not a dict'.
ChatChoices ==
    {[choices |-> NoChoices, repr |-> <<>>],
     [choices |-> [kind |-> "none", items |-> <<>>], repr |-> Text("None")],
     [choices |-> JChoices(<<>>), repr |-> Text("[]")],
     [choices |-> JChoices(<<JChoiceNotDict>>), repr |-> Text("['x']")],
     [choices |-> JChoices(<<JChoice(NoContent)>>), repr |-> Text("[{}]")],
     [choices |-> JChoices(<<JChoice(JNotDict)>>),
      repr |-> Text("[{'message': 'not a dict'}]")],
     [choices |-> JChoices(<<JChoice(JMessage(Absent))>>),
      repr |-> Text("[{'message': {}}]")],
     [choices |-> JChoices(<<JChoice(JMessage(JStr(Text("stubbed answer "))))>>),
      repr |-> Text("[{'message': {'content': 'stubbed answer '}}]")],
     [choices |-> JChoices(<<JChoice(JMessage(JStr(
                      <<12, 160>> \o Text("stubbed answer") \o <<13, 11>>)))>>),
      repr |-> Text("[{'message': {'content': '\\x0c\\xa0stubbed answer\\r\\x0b'}}]")],
     [choices |-> JChoices(<<JChoice(JMessage(JInt(Text("42"))))>>),
      repr |-> Text("[{'message': {'content': 42}}]")],
     [choices |-> JChoices(<<JChoice(JMessage(JNull))>>),
      repr |-> Text("[{'message': {'content': None}}]")]}

\* What the server can do: no connection, a timeout, an error status, a body
\* that is no JSON, JSON that is no object, an object {"message": {...}}
\* with a message object, an object {"done": true, ...} with no message or
\* with the message 'not a dict', and with or without choices. repr is
\* str(data), the keys in the order done, message, choices.
ChatResponses ==
    {[transport |-> t, status |-> 200, body |-> JOther("invalid", <<>>)]
        : t \in {"ConnectionError", "Timeout"}}
    \cup {[transport |-> "ok", status |-> st, body |-> JOther("invalid", <<>>)]
        : st \in {200, 404, 500}}
    \cup {[transport |-> "ok", status |-> 200, body |-> b]
        : b \in {JOther("list", Text("[]")), JOther("none", Text("None")),
                  JOther("str", Text(" ok\n"))}}
    \cup {[transport |-> "ok", status |-> 200,
           body |-> JDict(Text("{'message': ") \o c.repr \o Text("}"),
                          JMessage(c.content), NoChoices)]
        : c \in ChatContents}
    \cup {[transport |-> "ok", status |-> 200,
           body |-> JDict(Text("{'done': True")
                          \o (IF m = JNotDict THEN Text(", 'message': 'not a dict'")
                              ELSE <<>>)
                          \o (IF ch.choices = NoChoices THEN <<>>
                              ELSE Text(", 'choices': ") \o ch.repr)
                          \o Text("}"),
                          m, ch.choices)]
        : m \in {NoContent, JNotDict}, ch \in ChatChoices}

\* An OllamaClient was made; the call and the server's behaviour are chosen.
ChatInit ==
    /\ model = "None"
    /\ index = None
    /\ metadata = None
    /\ index_file = NoFile
    /\ meta_file = NoFile
    /\ op = "init"
    /\ args \in [messages : ChatMessages, resp : ChatResponses]
    /\ ret = Ok(<<>>)
    /\ calls = <<>>
    /\ cand = <<>>
    /\ model_name = DefaultModelName
    /\ threads = <<>>
    /\ member_recos = <<>>
    /\ retrieved_facts = <<>>

ChatNext == Chat

ChatSpec == ChatInit /\ [][ChatNext]_vars

----------------------------------------------------------------------------
(* Vocabulary of the properties. *)

Initialized == index # None /\ metadata # None

\* The last operation was a search that returned a list.
SearchReturned == op = "search" /\ ret.err = "none"

Rows == 1..Len(metadata.rows)

\* Row i of the metadata table equals the filter value on every key of the
\* last search's filters (every row when there are no filters). A row has no
\* value on a key that is no column, or where it holds NaN.
Matches(i) ==
    \A p \in args.filters :
        /\ p[1] \in metadata.columns
        /\ metadata.rows[i][p[1]] # NaN
        /\ metadata.rows[i][p[1]] = p[2]

MatchCount == Cardinality({i \in Rows : Matches(i)})

\* The matching rows among the candidates index.search handed back.
WindowMatchCount ==
    Cardinality({r \in 1..Len(cand) :
        /\ cand[r].idx >= 0
        /\ cand[r].idx + 1 \in Rows
        /\ Matches(cand[r].idx + 1)})

FilterKeysAreColumns == \A p \in args.filters : p[1] \in metadata.columns

\* The files save() writes for the store build_from_docs(docs) builds.
SavedFrom(docs) ==
    /\ Len(docs) > 0
    /\ index_file = write_index(Built(docs).index)
    /\ meta_file = to_parquet(Built(docs).metadata)

----------------------------------------------------------------------------
(* Properties of search. *)

\* C1: search never returns more than top_k result records, with or
\* without filters.
C1_TopKBound == op = "search" => Len(ret.val) <= args.top_k

\* C1 witness: a filtered search returned exactly top_k records although more
\* than top_k rows match.
C1_Witness ==
    /\ SearchReturned
    /\ args.filters # {}
    /\ Len(ret.val) = args.top_k
    /\ MatchCount > args.top_k

\* C2 as claimed: whenever at least top_k rows match the filters, search
\* returns exactly top_k results.
C2_ExactlyTopK ==
    (SearchReturned /\ MatchCount >= args.top_k) => Len(ret.val) = args.top_k

\* C2 as amended: whenever at least top_k of the top_k * 5 candidates the index
\* search returned are rows matching the filters, search returns exactly top_k
\* results.
C2_TopKWithinWindow ==
    (SearchReturned /\ WindowMatchCount >= args.top_k) => Len(ret.val) = args.top_k

\* C2 witness: a filtered search on an index larger than the over-fetch window
\* returned top_k records.
C2_Witness ==
    /\ SearchReturned
    /\ args.filters # {}
    /\ ntotal(index) > Len(cand)
    /\ WindowMatchCount >= args.top_k
    /\ Len(ret.val) = args.top_k

\* C3: with filters whose keys are all columns, every returned record is the
\* record of a metadata row that equals the filter value on every key.
C3_FiltersRespected ==
    (SearchReturned /\ args.filters # {} /\ FilterKeysAreColumns) =>
        \A r \in 1..Len(ret.val) :
            \E i \in Rows :
                /\ Matches(i)
                /\ \A c \in metadata.columns : ret.val[r][c] = metadata.rows[i][c]

\* C3 witness: a search with two filter keys returned records while some row
\* of the table does not match.
C3_Witness ==
    /\ SearchReturned
    /\ Cardinality(args.filters) = 2
    /\ FilterKeysAreColumns
    /\ Len(ret.val) >= 1
    /\ MatchCount < Len(metadata.rows)

\* C4 as claimed: a filter on a key that is no column of the metadata table
\* makes search return the empty list.
C4_UnknownFieldEmpty ==
    (op = "search" /\ Initialized /\ ~FilterKeysAreColumns) => ret = Ok(<<>>)

\* C5 as claimed: when no metadata row matches the filters, search returns the
\* empty list and has called neither the encoder nor the index.
C5_NoMatchNoCalls ==
    (op = "search" /\ Initialized /\ MatchCount = 0) =>
        (ret = Ok(<<>>) /\ calls = <<>>)

----------------------------------------------------------------------------
(* Properties of build, save and load. *)

\* C6 as claimed: after a successful build_from_docs or load the index holds
\* as many vectors as the metadata table has rows.
C6_SizeInvariant ==
    (op \in {"build_from_docs", "load"} /\ ret.err = "none") =>
        ntotal(index) = Len(metadata.rows)

\* C7 as claimed: a crash inside save leaves on disk either the pair of files
\* that was there before or the complete new pair.
C7_SaveAtomic ==
    [][op' = "crash" =>
        \/ disk' = disk
        \/ disk' = <<write_index(index), to_parquet(metadata)>>]_vars

\* load() on a fresh VectorStore with the same config and base directory,
\* the files being (ifile, mfile).
FreshLoad(ifile, mfile) == LoadOutcome(None, None, ifile, mfile)

C9_SearchNotInitialized ==
    [][(op' = "search" /\ ~Initialized) =>
        /\ ret' = Raise("RuntimeError")
        /\ calls' = <<>>
        /\ UNCHANGED <<memory, disk>>]_vars

\* C9 witness: a search raised on a store that was never built or loaded.
C9_Witness ==
    /\ op = "search"
    /\ ret.err = "RuntimeError"
    /\ index = None
    /\ metadata = None
    /\ model = "None"

\* C10: load with the index file or the metadata file missing raises the
\* not-found error and leaves the in-memory index and metadata as they were.
C10_LoadMissingFile ==
    [][(op' = "load" /\ (~Exists(index_file) \/ ~Exists(meta_file))) =>
        /\ ret' = Raise("FileNotFoundError")
        /\ UNCHANGED <<memory, disk>>]_vars

\* C10 witness: load raised not-found with only the index file present, on a
\* store that holds an index and metadata.
C10_Witness ==
    /\ op = "load"
    /\ ret.err = "FileNotFoundError"
    /\ Exists(index_file)
    /\ ~Exists(meta_file)
    /\ Initialized

\* C11: save on a store with no successful build_from_docs or load behind it
\* (index or metadata unset) raises the nothing-to-save error, writes neither
\* file and leaves the store as it was.
C11_SaveNothingToSave ==
    [][(op' = "save" /\ ~Initialized) =>
        /\ ret' = Raise("RuntimeError")
        /\ UNCHANGED <<disk, memory>>]_vars

\* C11 witness: save raised on a store that holds an index but no metadata
\* (left by a load that failed on the metadata file), with files on disk.
C11_Witness ==
    /\ op = "save"
    /\ ret.err = "RuntimeError"
    /\ index # None
    /\ metadata = None
    /\ Exists(index_file)
    /\ Exists(meta_file)

----------------------------------------------------------------------------
(* Properties of the search result. *)

\* A candidate of the last index.search is a row position that is no label
\* of the metadata table.
HitWithoutRow ==
    \E r \in 1..Len(cand) : cand[r].idx >= 0 /\ cand[r].idx \notin LabelSet(metadata)

\* C12 as claimed: a search that gets from the index a row position with no
\* metadata row raises a corruption error instead of skipping the hit.
C12_CorruptionError ==
    (op = "search" /\ Initialized /\ HitWithoutRow) => ret.err # "none"

\* The row position of a returned record: the label of the metadata row with
\* the record's doc_id (doc ids are unique in the corpus).
RowPosition(rec) ==
    metadata.labels[CHOOSE i \in Rows : metadata.rows[i]["doc_id"] = rec["doc_id"]]

\* C13 as claimed: the records search returns come by non-increasing score,
\* and records of equal score by ascending row position.
C13_RankedOrder ==
    SearchReturned =>
        \A r \in 1..(Len(ret.val) - 1) :
            \/ ret.val[r]["score"] > ret.val[r + 1]["score"]
            \/ /\ ret.val[r]["score"] = ret.val[r + 1]["score"]
               /\ RowPosition(ret.val[r]) < RowPosition(ret.val[r + 1])

----------------------------------------------------------------------------
(* Properties of build_from_docs. *)

\* The last operation was a build_from_docs that returned.
BuildReturned == op = "build_from_docs" /\ ret.err = "none"

\* C14: after build_from_docs(docs) the metadata table has one row per
\* document, in document order: row i has row position i - 1, holds every
\* metadata field of docs[i] and the doc_id docs[i].id, and vector i of the
\* index is the embedding of docs[i].text.
C14_BuildInOrder ==
    BuildReturned =>
        /\ Len(metadata.rows) = Len(args.docs)
        /\ \A i \in 1..Len(args.docs) :
              /\ metadata.labels[i] = i - 1
              /\ metadata.rows[i]["doc_id"] = args.docs[i].id
              /\ \A p \in args.docs[i].metadata :
                    p[1] # "doc_id" => metadata.rows[i][p[1]] = p[2]
              /\ index.vecs[i] = encode(<<args.docs[i].text>>)[1]

\* C14 witness: a build of five or more documents returned, one of them
\* carrying a doc_id of its own among its metadata and one a field the
\* others lack.
C14_Witness ==
    /\ BuildReturned
    /\ Len(args.docs) >= 5
    /\ \E i \in 1..Len(args.docs) : "doc_id" \in Keys(args.docs[i].metadata)
    /\ \E i \in 1..Len(args.docs) : "tenure_bucket" \in Keys(args.docs[i].metadata)

\* C15: a build_from_docs(docs) that returns on a store already holding an
\* index and metadata leaves exactly the entries of docs: as many vectors and
\* rows as documents, the vectors of the texts, the doc ids of docs in
\* order, and no column but the keys of docs and doc_id.
C15_BuildReplaces ==
    [][(op' = "build_from_docs" /\ ret'.err = "none" /\ Initialized) =>
        /\ ntotal(index') = Len(args'.docs)
        /\ Len(metadata'.rows) = Len(args'.docs)
        /\ \A i \in 1..Len(args'.docs) :
              /\ index'.vecs[i] = encode(<<args'.docs[i].text>>)[1]
              /\ metadata'.rows[i]["doc_id"] = args'.docs[i].id
        /\ metadata'.columns =
              {"doc_id"} \cup UNION {Keys(args'.docs[i].metadata) : i \in 1..Len(args'.docs)}]_vars

\* C15 witness: a build returned on a store whose model was constructed by
\* an earlier call, with fewer documents than the store saved to disk held.
C15_Witness ==
    /\ BuildReturned
    /\ calls = <<"model.encode">>
    /\ \E docs \in DocLists : SavedFrom(docs) /\ Len(docs) > Len(args.docs)
    /\ "tenure_bucket" \notin metadata.columns

----------------------------------------------------------------------------
(* Properties of the embedding model. *)

\* The call sequence cs has a construction of the embedding model.
Constructs(cs) == \E i \in 1..Len(cs) : cs[i] = "SentenceTransformer"

\* C16: on one store instance, called sequentially, the embedding model is
\* constructed only by a call that encodes, as the step right before its
\* model.encode and only while self.model is unset; once set, self.model
\* stays set and no later call of the instance constructs a model again.
\* (An instance ends with a new VectorStore or with the death of the process.)
C16_ModelConstructedOnce ==
    [][/\ Constructs(calls') =>
            /\ model = "None"
            /\ op' \in {"build_from_docs", "search", "encode"}
            /\ Len(calls') >= 2
            /\ calls'[1] = "SentenceTransformer"
            /\ calls'[2] = "model.encode"
            /\ ~Constructs(Tail(calls'))
       /\ (model = "loaded" /\ op' \notin {"init", "crash"}) =>
            /\ model' = "loaded"
            /\ ~Constructs(calls')
       /\ (model = "None" /\ ~Constructs(calls')) => model' = "None"]_vars

\* C16 witness: an encode call on a store that was built before reused the
\* model: it ran model.encode and constructed nothing.
C16_Witness ==
    /\ op = "encode"
    /\ ret.err = "none"
    /\ calls = <<"model.encode">>
    /\ model = "loaded"
    /\ Initialized

----------------------------------------------------------------------------
(* Frame of search. *)

\* C18: a search, whether it returns records, returns the empty list or
\* raises, leaves the in-memory index, the in-memory metadata table and both
\* files as they were.
C18_SearchReadOnly ==
    [][op' = "search" => UNCHANGED <<index, metadata, index_file, meta_file>>]_vars

\* C18 witness: a filtered search that constructed the model and returned
\* fewer records than the table has rows, on a store with both files saved.
C18_Witness ==
    /\ SearchReturned
    /\ args.filters # {}
    /\ Constructs(calls)
    /\ Len(ret.val) >= 1
    /\ MatchCount < Len(metadata.rows)
    /\ Readable(index_file)
    /\ Readable(meta_file)

----------------------------------------------------------------------------
(* Properties of concurrent readers. *)

\* The threads that constructed an embedding model during their search.
Constructors == {t \in Threads : Constructs(threads[t].calls)}

\* C17 as claimed: however the threads searching one loaded store are
\* interleaved, at most one embedding model is constructed for the store.
C17_ConstructedAtMostOnce == Cardinality(Constructors) <= 1

----------------------------------------------------------------------------
(* Properties of the configuration. *)

\* C19 as claimed: constructing a VectorStore whose config carries an encoder
\* identifier that names no model fails.
C19_InvalidNameFatal ==
    (op = "init" /\ ~IsModel(model_name)) => ret.err # "none"

----------------------------------------------------------------------------
(* Properties of the router. *)

\* answer_query has ended and its "Retrieval" block caught an error of
\* _load_vector_store or _search_facts: the error logged right after the call
\* of _load_vector_store.
RetrievalRaised ==
    /\ op = "answer_query"
    /\ ~InCall
    /\ \E i \in 1..(Len(calls) - 1) :
          calls[i] = "_load_vector_store" /\ calls[i + 1] = "logger.exception"

\* answer_query returned a record with the three keys, for the member given.
ReturnedRecord ==
    /\ ret.err = "none"
    /\ DOMAIN ret.val = {"answer", "intent", "used_member_nbr"}
    /\ ret.val.used_member_nbr = args.membership_nbr

\* C20 as claimed: when retrieval is enabled and loading the vector store or
\* searching it raises, answer_query goes on with an empty retrieved_facts
\* list and returns a record with the keys answer, intent and
\* used_member_nbr.
C20_RetrievalDegrades ==
    RetrievalRaised => (retrieved_facts = <<>> /\ ReturnedRecord)

----------------------------------------------------------------------------
(* Properties of the offline build. *)

\* The step of main the run entered last.
LastStep(cs) == IF cs = <<>> THEN "main" ELSE cs[Len(cs)]

\* C21: in a run of the offline build, save is entered only right after a
\* build_from_docs that returned, on the store that build made from the
\* run's documents; every step before save leaves both files as they were;
\* and a run that ended, by an exception or after save, takes no further
\* step.
C21_SaveOnlyAfterBuild ==
    [][op' = "run_retrieval" =>
        /\ LastStep(calls') = "save" =>
              /\ Running
              /\ LastStep(calls) = "build_from_docs"
              /\ Len(args.docs) > 0
              /\ index = Built(args.docs).index
              /\ metadata = Built(args.docs).metadata
        /\ LastStep(calls') # "save" => UNCHANGED disk
        /\ (op = "run_retrieval" /\ ~Running) => calls' = <<>>]_vars

\* C21 witness: a run ended in build_from_docs on the embedding model, with
\* the files an earlier run saved still on disk.
C21_Witness ==
    /\ op = "run_retrieval"
    /\ LastStep(calls) = "build_from_docs"
    /\ ret.err = "OSError"
    /\ Len(args.docs) > 0
    /\ \E docs \in PipelineDocLists : SavedFrom(docs) /\ docs # args.docs

----------------------------------------------------------------------------
(* Properties of the intent. *)

\* The last operation was an answer_query that returned past the debug echo
\* and the load of llm.yaml.
Answered ==
    /\ op = "answer_query"
    /\ ~args.env.debug_echo
    /\ args.env.config # "llm_unreadable"
    /\ ret.err = "none"

\* routing.intents of llm.yaml as answer_query uses it: ["general_help"]
\* when the list is empty.
ConfiguredIntents(env) == IF env.intents = <<>> THEN <<"general_help">> ELSE env.intents

\* C22: when debug echo is off and llm.yaml loads, the intent in the record
\* answer_query returns is one of the configured intents (general_help when
\* none is configured).
C22_IntentConfigured ==
    Answered => InList(ret.val.intent, ConfiguredIntents(args.env))

\* C22 witness: the query has the keyword of a group whose intent is not
\* configured and of a group whose intent is, general_help is not configured,
\* and answer_query returned the configured one.
C22_Witness ==
    /\ Answered
    /\ Contains(lower(Text(args.user_query)), Text("why"))
    /\ ~InList("why_explanation", args.env.intents)
    /\ ~InList("general_help", args.env.intents)
    /\ args.env.intents # <<>>
    /\ ret.val.intent = "member_nba"

----------------------------------------------------------------------------
(* Properties of the answer. *)

\* C23 as claimed: the record answer_query returns has a non-empty answer,
\* whatever member-reco loading, retrieval and the LLM call did, an LLM reply
\* with empty content included.
C23_AnswerNonEmpty ==
    (op = "answer_query" /\ ret.err = "none") => ret.val.answer.text # ""

----------------------------------------------------------------------------
(* Properties of the LLM client. *)

\* The HTTP call fails or its body cannot be decoded.
HttpFails(resp) ==
    resp.transport # "ok" \/ resp.status >= 400 \/ resp.body.kind = "invalid"

\* The str s starts with the str prefix.
StartsWith(s, prefix) == Len(s) >= Len(prefix) /\ SubSeq(s, 1, Len(prefix)) = prefix

\* C24: chat never raises: it returns a string, and when the HTTP call fails
\* or the response cannot be decoded the string is the error message.
C24_ChatNeverRaises ==
    op = "chat" =>
        /\ ret.err = "none"
        /\ ret.val \in Seq(Nat)
        /\ HttpFails(args.resp) => StartsWith(ret.val, Text("Error calling Ollama model"))

\* C24 witness: the server answered 200 with an object that has an empty
\* choices list and no message object, and chat returned the error message.
C24_Witness ==
    /\ op = "chat"
    /\ ~HttpFails(args.resp)
    /\ args.resp.body.message.kind # "dict"
    /\ args.resp.body.choices = JChoices(<<>>)
    /\ ret = Ok(Text("Error calling Ollama model: IndexError"))

----------------------------------------------------------------------------
(* Properties of the over-fetch. *)

Min(a, b) == IF a <= b THEN a ELSE b

\* The last operation was a search on a store with as many vectors as
\* metadata rows, without filters or with all vectors inside the over-fetch
\* window.
WithinOverfetch ==
    /\ op = "search"
    /\ Initialized
    /\ ntotal(index) = Len(metadata.rows)
    /\ (args.filters = {} \/ ntotal(index) <= OVERFETCH_FACTOR * args.top_k)

\* C25 as claimed: without filters, or with an index of at most 5 x top_k
\* vectors, search returns exactly min(top_k, m) records, m being the number
\* of metadata rows that match the filters (all rows without filters).
C25_ExactCount ==
    WithinOverfetch =>
        /\ ret.err = "none"
        /\ Len(ret.val) = Min(args.top_k, MatchCount)

----------------------------------------------------------------------------
(* Failure atomicity of build_from_docs and load. *)

\* C26: a build_from_docs that raises, in the encoding or in the index
\* construction, leaves self.index and self.metadata as they were before the
\* call.
C26_BuildAllOrNothing ==
    [][(op' = "build_from_docs" /\ ret'.err # "none") => UNCHANGED <<index, metadata>>]_vars

\* C26 witness: build_from_docs raised on the embedding model, on a store
\* that holds the index and the metadata it loaded from the files.
C26_Witness ==
    /\ op = "build_from_docs"
    /\ ret.err = "OSError"
    /\ Len(args.docs) > 0
    /\ Initialized
    /\ index = read_index(index_file)
    /\ metadata = read_parquet(meta_file)

\* C27 as claimed: a load that raises, for whatever reason, leaves self.index
\* and self.metadata as they were before the call.
C27_LoadAllOrNothing ==
    [][(op' = "load" /\ ret'.err # "none") => UNCHANGED <<index, metadata>>]_vars

----------------------------------------------------------------------------
(* Properties of answer_query's outcome. *)

\* C28 as claimed: answer_query never raises: for every query, member and
\* combination of failures in config loading, member-reco loading,
\* retrieval, prompt building and the LLM call it returns a record with the
\* keys answer, intent and used_member_nbr.
C28_NeverRaises == (op = "answer_query" /\ ~InCall) => ReturnedRecord

----------------------------------------------------------------------------
(* Properties of _detect_intent. *)

\* The keyword groups in their priority order.
KeywordGroups ==
    << [intent |-> "why_explanation", keywords |-> {Text("why"), Text("reason"), Text("explain")}],
       [intent |-> "segment_analysis", keywords |-> {Text("segment"), Text("persona"), Text("cohort")}],
       [intent |-> "kg_explore", keywords |-> {Text("graph"), Text("relation"), Text("connect")}],
       [intent |-> "member_nba",
        keywords |-> {Text("next best"), Text("next-best"), Text("nba"), Text("next action")}] >>

\* Group g has a keyword in the lower-cased query and its intent is configured.
GroupApplies(g, user_query, intents) ==
    /\ \E kw \in KeywordGroups[g].keywords : Contains(lower(user_query), kw)
    /\ InList(KeywordGroups[g].intent, intents)

Applying(user_query, intents) ==
    {g \in 1..Len(KeywordGroups) : GroupApplies(g, user_query, intents)}

\* C29: _detect_intent returns the intent of the first keyword group, in the
\* order why / segment / graph / next best, that has a keyword in the
\* lower-cased query and whose intent is configured; when there is none it
\* returns general_help if configured and the first configured intent
\* otherwise.
C29_IntentPriority ==
    op = "_detect_intent" =>
        /\ ret.err = "none"
        /\ \A g \in Applying(args.user_query, args.intents) :
              (\A h \in Applying(args.user_query, args.intents) : g <= h)
                  => ret.val = KeywordGroups[g].intent
        /\ Applying(args.user_query, args.intents) = {} =>
              ret.val = IF InList("general_help", args.intents) THEN "general_help"
                        ELSE args.intents[1]

\* C29 witness: the query has keywords of the first three groups, the first
\* group's intent is not configured, and the second group's intent came back.
C29_Witness ==
    /\ op = "_detect_intent"
    /\ Applying(args.user_query, args.intents) = {2, 3}
    /\ Contains(lower(args.user_query), Text("explain"))
    /\ ret.val = "segment_analysis"

----------------------------------------------------------------------------
(* Properties of the member recommendations in answer_query. *)

\* answer_query went past the config load and the intent detection.
Routing ==
    /\ op = "answer_query"
    /\ ~args.env.debug_echo
    /\ args.env.config \notin {"llm_unreadable", "llm_empty"}

\* The intent _detect_intent gave for the call in args.
DetectedIntent == detect_intent(Text(args.user_query), ConfiguredIntents(args.env))

\* A member is given, the intent is member_nba or why_explanation and
\* RI_DISABLE_MEMBER_RECOS is not set.
RecosWanted ==
    /\ args.membership_nbr # "None"
    /\ DetectedIntent \in {"member_nba", "why_explanation"}
    /\ ~args.env.disable_member_recos

\* Loading the rows fails for the call in args: app.yaml cannot be read, or
\* the recommendation file is missing or unreadable.
LoadingFails == args.env.config = "app_unreadable" \/ args.env.reco_file # "ok"

\* C30: answer_query calls the loader of the member recommendations exactly
\* when a member is given, the intent is member_nba or why_explanation and
\* RI_DISABLE_MEMBER_RECOS is not set; otherwise, and when loading fails, its
\* member_recos is the empty list; member_recos never has more than MAX_RECS
\* rows; a call that did not get as far holds the empty list too.
C30_MemberRecosGuarded ==
    /\ Routing =>
          /\ InList("_load_member_recos_for_member", calls) <=> RecosWanted
          /\ (~RecosWanted \/ LoadingFails) => member_recos = <<>>
          /\ Len(member_recos) <= MAX_RECS
    /\ (op = "answer_query" /\ ~Routing) => member_recos = <<>>

\* C30 witness: the member's file has more than MAX_RECS rows, the loader
\* was called and MAX_RECS rows went to the prompt.
C30_Witness ==
    /\ Routing
    /\ RecosWanted
    /\ args.env.reco_rows > MAX_RECS
    /\ Len(member_recos) = MAX_RECS
    /\ InList("prompts.build_messages", calls)

====
